---- MODULE Spec2Model ----
(***************************************************************************)
(* A model of ai4water's multi-source transformation coordinator           *)
(* (ai4water/preprocessing/transformations/_transformation_wrapper.py).    *)
(*                                                                         *)
(* Python values are tagged records (field t is the Python class):         *)
(*   None, str, list, dict, tuple, ndarray (ndim 2 or 3), DataFrame.       *)
(* A raised exception is a record with t = "exc".  Python strings are TLA+ *)
(* strings, and the registry keys are built by string concatenation, as    *)
(* the f-strings of the source build them.                                 *)
(***************************************************************************)
EXTENDS Integers, Sequences, FiniteSets, TLC

VARIABLES names,      \* self.names
          config,     \* self.config
          scalers,    \* self.scalers, the scaler registry: key -> entry
          is_numpy_,  \* the three variant flags: "unset", "True" or "False"
          is_list_,
          is_dict_,
          op,         \* the last public method called
          arg,        \* its argument
          ret,        \* what it returned, or the exception it raised
          calls,      \* the transform-primitive invocations of the last call
          fit_arg,    \* argument of the last fit_transform that returned
          fit_ret,    \* what that fit_transform returned
          fit_calls,  \* the primitive invocations of that fit_transform
          fresh,      \* no fit_transform was called since that one returned
          refit,      \* that fit_transform replaced a scaler an earlier call stored
          space_args, \* the arguments make_space is called with
          space_ret,  \* what make_space returned or raised (None before the call)
          conform_args, \* the arguments conform_shape is called with
          conform_ret,  \* what conform_shape returned or raised (None before the call)
          stripped,     \* the table after the dummy columns were cut off (line 300)
          model_input_features, \* self.input_features of an OptimizeTransformations
          trial_config, \* the config dict handed to update
          suggestions   \* the suggestions of the last update (None before)

vars == <<names, config, scalers, is_numpy_, is_list_, is_dict_, op, arg, ret,
          calls, fit_arg, fit_ret, fit_calls, fresh, refit, space_args, space_ret,
          conform_args, conform_ret, stripped, model_input_features, trial_config,
          suggestions>>

-----------------------------------------------------------------------------
(* Bounds of the model *)

\* cell values of the input tables are built from a base value in 1..MaxVal
MaxVal == 2
\* rank-3 inputs have 1..MaxTime time steps
MaxTime == 2

-----------------------------------------------------------------------------
(* Python values *)

None == [t |-> "None"]
PyStr(s) == [t |-> "str", s |-> s]
PyList(items) == [t |-> "list", items |-> items]
PyDict(keys, vals) == [t |-> "dict", keys |-> keys, vals |-> vals]
PyTuple(items) == [t |-> "tuple", items |-> items]
NdArray2(v) == [t |-> "ndarray", ndim |-> 2, v |-> v]
\* a rank-3 array keeps its cells in v3[example][time][feature]
NdArray3(v) == [t |-> "ndarray", ndim |-> 3, v3 |-> v]
DataFrame(columns, v) == [t |-> "DataFrame", ndim |-> 2, columns |-> columns, v |-> v]

IsNone(x) == x.t = "None"
IsStr(x)  == x.t = "str"
IsList(x) == x.t = "list"
IsDict(x) == x.t = "dict"
IsNdArray(x) == x.t = "ndarray"
IsExc(x) == x.t = "exc"

\* Python truthiness of the values a transformation spec can be
Truthy(x) ==
    CASE IsNone(x) -> FALSE
      [] IsStr(x)  -> x.s # ""
      [] IsList(x) -> Len(x.items) > 0
      [] IsDict(x) -> Len(x.keys) > 0
      [] OTHER     -> TRUE

Exc(cls, at) == [t |-> "exc", cls |-> cls, at |-> at]
\* the ValueError of _inverse_transform_2d: names the key, lists the keys
MissingKeyError(key, available) ==
    [t |-> "exc", cls |-> "ValueError", at |-> "key for inverse transformation not found",
     key |-> key, available |-> available]
\* the KeyError of a failed subscript d[key]
KeyError(key) == [t |-> "exc", cls |-> "KeyError", at |-> "subscript", key |-> key]
\* the KeyError of self.scalers[key] for a key the registry does not hold
ScalerKeyError(key) == [t |-> "exc", cls |-> "KeyError", at |-> "self.scalers", key |-> key]

Range(s) == {s[i] : i \in DOMAIN s}
IndexOf(s, x) == CHOOSE i \in DOMAIN s : s[i] = x

\* d[k] of a Python dict (k must be a key)
DictHas(d, k) == k \in Range(d.keys)
DictGet(d, k) == d.vals[IndexOf(d.keys, k)]
\* d[k] = v : a present key keeps its position, a new key goes last
DictSet(d, k, v) ==
    IF DictHas(d, k)
    THEN PyDict(d.keys, [d.vals EXCEPT ![IndexOf(d.keys, k)] = v])
    ELSE PyDict(Append(d.keys, k), Append(d.vals, v))

\* the registry, a mapping key -> entry; update() adds or overwrites
\* (RegistryAddNew is an update that only adds: a present key keeps its entry)
EmptyRegistry == <<>>
RegistryAddNew(reg, new) == reg @@ new
RegistryUpdate(reg, new) == new @@ reg

\* str(i) of a small non-negative int, as the f-strings format it
Str(i) == ToString(i)
\* f"{key}_{suffix}"
KeyJoin(key, suffix) == key \o "_" \o suffix
\* a variant that leaves the position out of the key: f'{key}_{method}'
ListKeyNoIndex(key, method, idx) == KeyJoin(key, method)
\* f'{key}_{method}_{idx}'
ListKey(key, method, idx) == KeyJoin(KeyJoin(key, method), Str(idx))

-----------------------------------------------------------------------------
(* Tables *)

NRows(v) == Len(v)
NCols(v) == IF Len(v) = 0 THEN 0 ELSE Len(v[1])
Shape2(v) == <<NRows(v), NCols(v)>>

SeqMin(s) == CHOOSE m \in Range(s) : \A x \in Range(s) : m <= x
SeqMax(s) == CHOOSE m \in Range(s) : \A x \in Range(s) : m >= x
Column(v, c) == [r \in 1..Len(v) |-> v[r][c]]

\* the column labels pandas gives DataFrame(data, columns=columns): the names
\* of a flat list; for a list of lists, one tuple label per position
ColumnLabels(columns) ==
    IF \A i \in DOMAIN columns.items : IsStr(columns.items[i])
    THEN [i \in DOMAIN columns.items |-> columns.items[i].s]
    ELSE LET inner == columns.items[1].items
         IN [j \in DOMAIN inner |->
               "(" \o inner[j].s \o "," \o columns.items[Len(columns.items)].items[j].s \o ")"]

\* pd.DataFrame(data, columns=columns): the labels must fit the width
FrameFits(v, columns) ==
    /\ IsList(columns)
    /\ Len(columns.items) > 0
    /\ \/ \A i \in DOMAIN columns.items : IsStr(columns.items[i])
       \/ /\ \A i \in DOMAIN columns.items : IsList(columns.items[i])
          /\ \A i \in DOMAIN columns.items :
                Len(columns.items[i].items) = Len(columns.items[1].items)
    /\ Len(ColumnLabels(columns)) = NCols(v)

-----------------------------------------------------------------------------
(* The external transform primitive, ai4water's Transformation class.  Its   *)
(* code is not among the sources; it is modelled from the specification as   *)
(* a black box that fits, applies and inverts one named method on one 2-D    *)
(* table.  Each method is an exact inverse pair on the integers:             *)
(*   minmax  x |-> x - min(column)          zscore  x |-> 2x - max(column)   *)

Methods == {"minmax", "zscore"}
Gain(method) == IF method = "zscore" THEN 2 ELSE 1
Offset(method, col) == IF method = "zscore" THEN SeqMax(col) ELSE SeqMin(col)

\* the features of a descriptor that are columns of the frame; all columns
\* when the descriptor names no features
FittedFeatures(df, features) ==
    IF IsNone(features) THEN df.columns
    ELSE SelectSeq([i \in DOMAIN features.items |-> features.items[i].s],
                   LAMBDA f : f \in Range(df.columns))

\* the fitted state: {scaler, shape, key}
FitScaler(df, method, features) ==
    LET fs == FittedFeatures(df, features)
    IN [scaler |-> [method |-> method,
                    feats  |-> fs,
                    params |-> [i \in DOMAIN fs |->
                                  Offset(method, Column(df.v, IndexOf(df.columns, fs[i])))]],
        shape  |-> Shape2(df.v),
        key    |-> method]

\* Transformation(data=df, method=.., features=..)('transformation')
ForwardFrame(df, entry) ==
    LET sc == entry.scaler
    IN DataFrame(df.columns,
         [r \in DOMAIN df.v |-> [c \in DOMAIN df.v[r] |->
            IF df.columns[c] \in Range(sc.feats)
            THEN Gain(sc.method) * df.v[r][c] - sc.params[IndexOf(sc.feats, df.columns[c])]
            ELSE df.v[r][c]]])

\* Transformation(data=df, ..)(what='inverse', scaler=scaler): by column name
InverseFrame(df, sc) ==
    DataFrame(df.columns,
      [r \in DOMAIN df.v |-> [c \in DOMAIN df.v[r] |->
         IF df.columns[c] \in Range(sc.feats)
         THEN (df.v[r][c] + sc.params[IndexOf(sc.feats, df.columns[c])]) \div Gain(sc.method)
         ELSE df.v[r][c]]])

\* scaler.inverse_transform(data) of the fitted object itself: by position
InverseRaw(v, sc) ==
    [r \in DOMAIN v |-> [c \in DOMAIN v[r] |->
       (v[r][c] + sc.params[c]) \div Gain(sc.method)]]

\* one recorded invocation of the primitive
Call(what, base, method, idx, key) ==
    [what |-> what, base |-> base, method |-> method, idx |-> idx, key |-> key]

-----------------------------------------------------------------------------------------------------------------------------------------------------
(* Subscripts, with the exceptions Python raises *)

\* The one element of a singleton set.  Only({ e(r) : r \in {x} }) is e(x)
\* with x evaluated once.
Only(S) == CHOOSE x \in S : TRUE

\* x[i] for an int i (from 0)
SubscriptIdx(x, i) ==
    CASE IsList(x) -> IF i < Len(x.items) THEN x.items[i + 1]
                      ELSE Exc("IndexError", "list index out of range")
      [] IsDict(x) -> KeyError(Str(i))
      [] OTHER     -> Exc("TypeError", "not subscriptable")

\* x[k] for a str k
SubscriptKey(x, k) ==
    CASE IsDict(x) -> IF DictHas(x, k) THEN DictGet(x, k) ELSE KeyError(k)
      [] OTHER     -> Exc("TypeError", "indices must be integers")

\* a descriptor {method, features, ...}
Descriptor(method, features) == PyDict(<<"method", "features">>, <<method, features>>)
DescriptorNoFeatures(method) == PyDict(<<"method">>, <<method>>)
\* trans.get('features', default)
GetFeatures(trans, default) ==
    IF DictHas(trans, "features") THEN DictGet(trans, "features") ELSE default

\* The outcome of a call on the coordinator: the exception raised (or None),
\* the data returned, the registry after the call, the primitive calls made.
Outcome(exc, data, reg, cs) == [exc |-> exc, data |-> data, scalers |-> reg, calls |-> cs]
Raised(exc, reg, cs) == Outcome(exc, None, reg, cs)

-----------------------------------------------------------------------------
(* Transformations._transform_2d *)

\* Transformation(data=pd.DataFrame(data, columns=columns), method=..,
\* features=..)('transformation', return_key=True): (data, scaler) or an exception
TransformCall(v, columns, method, features) ==
    IF ~FrameFits(v, columns)
    THEN [exc |-> Exc("ValueError", "DataFrame: columns do not match the data")]
    ELSE IF ~(IsStr(method) /\ method.s \in Methods)
    THEN [exc |-> Exc("ValueError", "Transformation: unknown method")]
    ELSE Only({ [exc |-> None, v |-> ForwardFrame(DataFrame(ColumnLabels(columns), v), entry).v,
                 scaler |-> entry] :
                entry \in {FitScaler(DataFrame(ColumnLabels(columns), v), method.s, features)} })

\* one pass of the loop body: the primitive on acc.v, its scaler put in the
\* local dict under f'{key}_{method}_{idx}'
TransformEntry(acc, columns, method, features, idx, key) ==
    Only({ IF IsExc(r.exc) THEN [acc EXCEPT !.exc = r.exc]
           ELSE [exc |-> None, v |-> r.v, isdf |-> TRUE,
                 local |-> (ListKey(key, method.s, idx) :> r.scaler) @@ acc.local,
                 calls |-> Append(acc.calls,
                                  Call("transformation", key, method.s, idx,
                                       ListKey(key, method.s, idx)))] :
           r \in {TransformCall(acc.v, columns, method, features)} })

\* the loop body for the entry trans at position idx (lines 161-169)
TransformListStep(acc, columns, trans, idx, key) ==
    IF IsStr(trans) THEN TransformEntry(acc, columns, trans, None, idx, key)
    ELSE Only({ IF IsExc(m) THEN [acc EXCEPT !.exc = m]
                ELSE IF IsNone(m) THEN acc
                ELSE TransformEntry(acc, columns, m, GetFeatures(trans, None), idx, key) :
                m \in {SubscriptKey(trans, "method")} })

\* the loop over a list of transformations, from position idx on (lines 159-169);
\* acc carries data, the local scalers dict, and the calls made
RECURSIVE TransformList(_, _, _, _, _)
TransformList(acc, columns, transformation, idx, key) ==
    IF IsExc(acc.exc) \/ idx >= Len(transformation.items) THEN acc
    ELSE Only({ TransformList(a, columns, transformation, idx + 1, key) :
                a \in {TransformListStep(acc, columns, transformation.items[idx + 1],
                                         idx, key)} })

\* a single method name or descriptor: one scaler, under key itself
TransformSingle(start, columns, method, features, key) ==
    Only({ IF IsExc(r.exc) THEN [start EXCEPT !.exc = r.exc]
           ELSE [exc |-> None, v |-> r.v, isdf |-> TRUE,
                 local |-> (key :> r.scaler),
                 calls |-> <<Call("transformation", key, method.s, -1, key)>>] :
           r \in {TransformCall(start.v, columns, method, features)} })

\* the scalers dict and the data after the branches of lines 150-176: the
\* registry is not touched before line 178
Transform2dBody(start, columns, transformation, key) ==
    IF ~Truthy(transformation) THEN [start EXCEPT !.isdf = TRUE]
    ELSE IF IsDict(transformation)
    THEN IF ~DictHas(transformation, "method")
         THEN [start EXCEPT !.exc = Exc("TypeError", "Transformation: unexpected keyword")]
         ELSE TransformSingle(start, columns, DictGet(transformation, "method"),
                              GetFeatures(transformation, None), key)
    ELSE IF IsList(transformation)
    THEN Only({ IF IsExc(a.exc) \/ a.isdf THEN a
                \* data = data.values on what is still an ndarray
                ELSE [a EXCEPT !.exc = Exc("AttributeError", "values")] :
                a \in {TransformList(start, columns, transformation, 0, key)} })
    ELSE IF ~IsStr(transformation)
    THEN [start EXCEPT !.exc = Exc("AssertionError", "isinstance(transformation, str)")]
    ELSE TransformSingle(start, columns, transformation, None, key)

\* _transform_2d on the 2-D values v, with the registry reg: the transformed
\* array, the registry after self.scalers.update(scalers), the calls made
_transform_2d(reg, v, columns, transformation, key) ==
    Only({ IF IsExc(b.exc) THEN Raised(b.exc, reg, b.calls)
           ELSE Outcome(None, NdArray2(b.v), RegistryUpdate(reg, b.local), b.calls) :
           b \in {Transform2dBody([exc |-> None, v |-> v, isdf |-> FALSE,
                                   local |-> EmptyRegistry, calls |-> <<>>],
                                  columns, transformation, key)} })

-----------------------------------------------------------------------------
(* Transformations.__fit_transform *)

\* data[:, time_step] of a rank-3 array v[example][time][feature]
TimeSlice(v, ts) == [e \in DOMAIN v |-> v[e][ts + 1]]
NTimeSteps(v) == IF Len(v) = 0 THEN 0 ELSE Len(v[1])
\* _data[:, time_step] = slice
SetTimeSlice(v, ts, slice) == [e \in DOMAIN v |-> [v[e] EXCEPT ![ts + 1] = slice[e]]]

\* np.nan, the fill of the scratch buffer np.full(data.shape, np.nan)
NaN == -999
NanLike(v) == [e \in DOMAIN v |-> [ts \in DOMAIN v[e] |-> [f \in DOMAIN v[e][ts] |-> NaN]]]

\* acc after the call whose outcome is r: its calls and registry are kept; the
\* data becomes put (when r did not raise)
Merge(acc, r, put) ==
    Outcome(r.exc, IF IsExc(r.exc) THEN acc.data ELSE put, r.scalers, acc.calls \o r.calls)

\* one time step transformed under the key of the source itself, without its
\* time index, and written to the buffer
FitTimeStepUntagged(acc, data, feature_names, transformation, key, time_step) ==
    Only({ Merge(acc, r, IF IsExc(r.exc) THEN None
                         ELSE NdArray3(SetTimeSlice(acc.data.v3, time_step, r.data.v))) :
           r \in {_transform_2d(acc.scalers, TimeSlice(data.v3, time_step),
                                feature_names, transformation, key)} })

\* lines 194-197: one time step transformed and written to the buffer
FitTimeStep(acc, data, feature_names, transformation, key, time_step) ==
    Only({ Merge(acc, r, IF IsExc(r.exc) THEN None
                         ELSE NdArray3(SetTimeSlice(acc.data.v3, time_step, r.data.v))) :
           r \in {_transform_2d(acc.scalers, TimeSlice(data.v3, time_step),
                                feature_names, transformation,
                                KeyJoin(key, Str(time_step)))} })

\* the loop over the time steps of a rank-3 array, from time_step on
RECURSIVE FitTimeSteps(_, _, _, _, _, _)
FitTimeSteps(acc, data, feature_names, transformation, key, time_step) ==
    IF IsExc(acc.exc) \/ time_step >= NTimeSteps(data.v3) THEN acc
    ELSE Only({ FitTimeSteps(a, data, feature_names, transformation, key, time_step + 1) :
                a \in {FitTimeStep(acc, data, feature_names, transformation, key,
                                   time_step)} })

\* __fit_transform: one source, a rank-2 or rank-3 array
FitTransformSource(reg, data, feature_names, transformation, key) ==
    IF ~IsNdArray(data) THEN Raised(Exc("AttributeError", "ndim"), reg, <<>>)
    ELSE IF data.ndim = 3
    THEN FitTimeSteps(Outcome(None, NdArray3(NanLike(data.v3)), reg, <<>>),
                      data, feature_names, transformation, key, 0)
    ELSE _transform_2d(reg, data.v, feature_names, transformation, key)

-----------------------------------------------------------------------------
(* Transformations.transformation, _check_features, _fit_transform *)

\* a variant that hands the config out as it is stored
transformationAsStored(cfg, data) == cfg

\* the config, a single method name broadcast over the sources of data
transformation(cfg, data) ==
    IF IsList(data) /\ IsStr(cfg)
    THEN PyList([i \in DOMAIN data.items |-> cfg])
    ELSE IF IsDict(data) /\ IsStr(cfg)
    THEN PyDict(data.keys, [i \in DOMAIN data.keys |-> cfg])
    ELSE cfg

\* what `for n in x` iterates over
Iterated(x) ==
    CASE IsList(x) -> x.items
      [] IsDict(x) -> [i \in DOMAIN x.keys |-> PyStr(x.keys[i])]
      [] OTHER     -> <<>>

\* _check_features: None, or the AssertionError raised
_check_features(numpy, list, dict, nms) ==
    IF numpy = "True"
    THEN IF IsList(nms) THEN None ELSE Exc("AssertionError", "feature_names")
    ELSE IF list = "True"
    THEN IF \A i \in DOMAIN Iterated(nms) : IsList(Iterated(nms)[i])
         THEN None ELSE Exc("AssertionError", "feature_names")
    ELSE IF dict = "True"
    THEN IF IsDict(nms) /\ \A i \in DOMAIN nms.vals : IsList(nms.vals[i])
         THEN None ELSE Exc("AssertionError", "feature_names")
    ELSE None

\* lines 212-216: the source at position idx, transformed and appended; n and
\* t are self.names[idx] and transformation[idx], or the exception they raise
FitListSource(acc, array, n, t, key, idx) ==
    IF IsExc(n) THEN [acc EXCEPT !.exc = n]
    ELSE IF IsExc(t) THEN [acc EXCEPT !.exc = t]
    ELSE Only({ Merge(acc, r, IF IsExc(r.exc) THEN None
                              ELSE PyList(Append(acc.data.items, r.data))) :
                r \in {FitTransformSource(acc.scalers, array, n, t,
                                          KeyJoin(key, Str(idx)))} })

\* the loop of the list branch of _fit_transform, from position idx on
RECURSIVE FitListSources(_, _, _, _, _, _)
FitListSources(acc, data, nms, trans, key, idx) ==
    IF IsExc(acc.exc) \/ idx >= Len(data.items) THEN acc
    ELSE Only({ FitListSources(a, data, nms, trans, key, idx + 1) :
                a \in {Only({ FitListSource(acc, data.items[idx + 1], nt[1], nt[2], key, idx) :
                              nt \in {<<SubscriptIdx(nms, idx),
                                        SubscriptIdx(trans, idx)>>} })} })

\* the source named src_name, transformed and stored under one fixed name
FitDictSourceUnnamed(acc, array, n, t, key, src_name) ==
    IF IsExc(n) THEN [acc EXCEPT !.exc = n]
    ELSE IF IsExc(t) THEN [acc EXCEPT !.exc = t]
    ELSE Only({ Merge(acc, r, IF IsExc(r.exc) THEN None
                              ELSE DictSet(acc.data, "data", r.data)) :
                r \in {FitTransformSource(acc.scalers, array, n, t,
                                          KeyJoin(key, src_name))} })

\* lines 220-223: the source named src_name, transformed and stored
FitDictSource(acc, array, n, t, key, src_name) ==
    IF IsExc(n) THEN [acc EXCEPT !.exc = n]
    ELSE IF IsExc(t) THEN [acc EXCEPT !.exc = t]
    ELSE Only({ Merge(acc, r, IF IsExc(r.exc) THEN None
                              ELSE DictSet(acc.data, src_name, r.data)) :
                r \in {FitTransformSource(acc.scalers, array, n, t,
                                          KeyJoin(key, src_name))} })

\* the loop of the dict branch of _fit_transform, from the i-th key on
RECURSIVE FitDictSources(_, _, _, _, _, _)
FitDictSources(acc, data, nms, trans, key, i) ==
    IF IsExc(acc.exc) \/ i > Len(data.keys) THEN acc
    ELSE Only({ FitDictSources(a, data, nms, trans, key, i + 1) :
                a \in {Only({ FitDictSource(acc, data.vals[i], nt[1], nt[2], key,
                                            data.keys[i]) :
                              nt \in {<<SubscriptKey(nms, data.keys[i]),
                                        SubscriptKey(trans, data.keys[i])>>} })} })

\* lines 206-224, with transformation = self.transformation(data) in trans
FitSources(reg, numpy, list, nms, trans, data, key) ==
    IF numpy = "True"
    THEN FitTransformSource(reg, data, nms, trans, key)
    ELSE IF list = "True"
    THEN FitListSources(Outcome(None, PyList(<<>>), reg, <<>>), data, nms, trans, key, 0)
    ELSE IF ~IsDict(data)
    THEN Raised(Exc("AttributeError", "items"), reg, <<>>)
    ELSE FitDictSources(Outcome(None, PyDict(<<>>, <<>>), reg, <<>>),
                        data, nms, trans, key, 1)

\* _fit_transform: every source of data, under the recorded variant
_fit_transform(reg, numpy, list, nms, cfg, data, key) ==
    Only({ FitSources(reg, numpy, list, nms, trans, data, key) :
           trans \in {transformation(cfg, data)} })

\* the key every public call starts from (the default of the key parameters)
BaseKey == "5"

\* the classification without the final else branch: no class is refused
ClassifyAny(data) ==
    [is_numpy_ |-> IF IsNdArray(data) THEN "True" ELSE "False",
     is_list_  |-> IF IsList(data) THEN "True" ELSE "False",
     is_dict_  |-> IF IsDict(data) THEN "True" ELSE "False",
     exc       |-> None]

\* lines 117-128: the three flags are reset, the one of data's class is set;
\* any other class raises ValueError
Classify(data) ==
    [is_numpy_ |-> IF IsNdArray(data) THEN "True" ELSE "False",
     is_list_  |-> IF IsList(data) THEN "True" ELSE "False",
     is_dict_  |-> IF IsDict(data) THEN "True" ELSE "False",
     exc       |-> IF IsNdArray(data) \/ IsList(data) \/ IsDict(data) THEN None
                   ELSE Exc("ValueError", "fit_transform: data")]

\* an outcome together with the three flags the call leaves
WithFlags(r, numpy, list, dict) ==
    [exc |-> r.exc, data |-> r.data, scalers |-> r.scalers, calls |-> r.calls,
     is_numpy_ |-> numpy, is_list_ |-> list, is_dict_ |-> dict]

\* lines 130-143, once the variant f is recorded
FitChecked(reg, f, nms, cfg, data) ==
    Only({ IF IsExc(chk) THEN Raised(chk, reg, <<>>)
           ELSE Only({ IF IsExc(r.exc) THEN r
                       ELSE IF r.data.t # data.t
                       THEN Raised(Exc("AssertionError", "type changed"), r.scalers, r.calls)
                       ELSE r :
                       r \in {_fit_transform(reg, f.is_numpy_, f.is_list_, nms, cfg, data,
                                             BaseKey)} }) :
           chk \in {_check_features(f.is_numpy_, f.is_list_, f.is_dict_, nms)} })

\* fit_transform: what it returns or raises, and the coordinator after it
fit_transform(reg, numpy, list, dict, nms, cfg, data) ==
    IF IsNone(cfg)
    THEN WithFlags(Outcome(None, data, reg, <<>>), numpy, list, dict)
    ELSE Only({ Only({ WithFlags(r, f.is_numpy_, f.is_list_, f.is_dict_) :
                       r \in {IF IsExc(f.exc) THEN Raised(f.exc, reg, <<>>)
                              ELSE FitChecked(reg, f, nms, cfg, data)} }) :
                f \in {Classify(data)} })

-----------------------------------------------------------------------------
(* conform_shape *)

\* the values np.random.random may fill a padded cell with, abstracted
PadVals == {0, 1}

\* data[f] = <random column>, for each f of features that is no column yet
RECURSIVE AddMissingFeatures(_, _, _, _)
AddMissingFeatures(df, features, i, pad) ==
    IF i > Len(features) THEN df
    ELSE IF features[i] \in Range(df.columns)
    THEN AddMissingFeatures(df, features, i + 1, pad)
    ELSE Only({ AddMissingFeatures(d, features, i + 1, pad) :
                d \in {DataFrame(Append(df.columns, features[i]),
                                 [r \in DOMAIN df.v |-> Append(df.v[r], pad)])} })

\* a variant that puts the dummy columns behind the data
\* (pd.concat([data, dummy_data], axis=1))
AppendDummy(df, n, pad) ==
    DataFrame(df.columns \o [i \in 1..n |-> Str(i - 1)],
              [r \in DOMAIN df.v |-> df.v[r] \o [i \in 1..n |-> pad]])

\* pd.concat([dummy_data, data], axis=1): n columns labelled 0..n-1 in front
PrependDummy(df, n, pad) ==
    DataFrame([i \in 1..n |-> Str(i - 1)] \o df.columns,
              [r \in DOMAIN df.v |-> [i \in 1..n |-> pad] \o df.v[r]])

\* arrays of rank 1 and 4 keep their cells in fields of their own
NdArray1(v) == [t |-> "ndarray", ndim |-> 1, v1 |-> v]
NdArray4(v) == [t |-> "ndarray", ndim |-> 4, v4 |-> v]

\* data.shape[-1]
LastDim(data) ==
    IF data.t = "DataFrame" THEN NCols(data.v)
    ELSE IF data.ndim = 1 THEN Len(data.v1)
    ELSE IF data.ndim = 2 THEN NCols(data.v)
    ELSE IF Len(data.v3) = 0 \/ Len(data.v3[1]) = 0 THEN 0
    ELSE Len(data.v3[1][1])

\* np.squeeze(data, axis=-1) (line 338): numpy removes a last axis of size 1
\* and raises ValueError for any other size; a DataFrame has no axis -1
Squeeze(data) ==
    IF data.t = "DataFrame" THEN Exc("ValueError", "squeeze: no axis named -1")
    ELSE IF LastDim(data) # 1 THEN Exc("ValueError", "squeeze: axis of size not one")
    ELSE IF data.ndim = 3
    THEN NdArray2([r \in DOMAIN data.v3 |-> [c \in DOMAIN data.v3[r] |-> data.v3[r][c][1]]])
    ELSE IF data.ndim = 2 THEN NdArray1([r \in DOMAIN data.v |-> data.v[r][1]])
    ELSE Exc("ValueError", "squeeze: rank")

\* np.expand_dims(data, axis=-1) (line 340): an ndarray with a trailing axis
\* of size 1, also for a DataFrame
ExpandDims(data) ==
    IF data.t = "DataFrame" \/ data.ndim = 2
    THEN NdArray3([r \in DOMAIN data.v |-> [c \in DOMAIN data.v[r] |-> <<data.v[r][c]>>]])
    ELSE IF data.ndim = 1 THEN NdArray2([r \in DOMAIN data.v1 |-> <<data.v1[r]>>])
    ELSE NdArray4([r \in DOMAIN data.v3 |-> [c \in DOMAIN data.v3[r] |->
                     [k \in DOMAIN data.v3[r][c] |-> <<data.v3[r][c][k]>>]]])

\* lines 337-343: the rank brought to that of shape when they differ by
\* one, or the exception raised
ConformRank(data, shape) ==
    Only({ IF IsExc(d) THEN d
           ELSE IF d.ndim # Len(shape)
           THEN Exc("AssertionError", "conform_shape: dimensions")
           ELSE d :
           d \in {IF data.ndim > Len(shape) THEN Squeeze(data)
                  ELSE IF data.ndim < Len(shape) THEN ExpandDims(data)
                  ELSE data} })

\* lines 359-361: dummy columns put in front of an ndarray; np.random.random
\* refuses a negative size and np.concatenate arrays of different rank
ConcatDummy(arr, n, pad) ==
    IF n < 0 THEN [exc |-> Exc("ValueError", "random: negative dimensions")]
    ELSE IF arr.ndim # 2 THEN [exc |-> Exc("ValueError", "concatenate: dimensions")]
    ELSE [exc |-> None, dummy_features |-> n,
          data |-> NdArray2([r \in DOMAIN arr.v |-> [i \in 1..n |-> pad] \o arr.v[r]])]

\* conform_shape(data, shape, features): the table and dummy_features, or
\* the exception raised
conform_shape(data, shape, features, pad) ==
    Only({ IF IsExc(df) THEN [exc |-> df]
           ELSE IF df.t # "DataFrame"
           THEN ConcatDummy(df, shape[Len(shape)] - LastDim(df), pad)
           ELSE [exc |-> None,
                 dummy_features |-> shape[Len(shape)] - NCols(df.v),
                 data |-> IF Truthy(features)
                          THEN AddMissingFeatures(df,
                                 [i \in DOMAIN features.items |-> features.items[i].s],
                                 1, pad)
                          ELSE IF shape[Len(shape)] - NCols(df.v) > 0
                          THEN PrependDummy(df, shape[Len(shape)] - NCols(df.v), pad)
                          ELSE df] :
           df \in {ConformRank(data, shape)} })

-----------------------------------------------------------------------------
(* Transformations._inverse_transform_2d *)

\* any([f in data for f in features])
AnyFeatureIn(df, features) ==
    \E i \in DOMAIN Iterated(features) :
        /\ IsStr(Iterated(features)[i])
        /\ Iterated(features)[i].s \in Range(df.columns)

\* transformed_data[orig_cols]
SelectColumns(df, cols) ==
    DataFrame(cols, [r \in DOMAIN df.v |->
                       [c \in DOMAIN cols |-> df.v[r][IndexOf(df.columns, cols[c])]]])

\* lines 315-321 and 326-331: the inverse of one descriptor, with the scaler
\* stored under k
InverseDescriptor(acc, reg, features, base, method, idx, k, pad) ==
    IF k \notin DOMAIN reg THEN [acc EXCEPT !.exc = ScalerKeyError(k)]
    ELSE Only({ IF IsExc(c.exc) THEN [acc EXCEPT !.exc = c.exc]
                ELSE [acc EXCEPT
                        !.data = SelectColumns(InverseFrame(c.data, reg[k].scaler),
                                               acc.data.columns),
                        !.calls = Append(acc.calls, Call("inverse", base, method, idx, k))] :
                c \in {conform_shape(acc.data, reg[k].shape, features, pad)} })

\* lines 306-309: the inverse of the method name tr at position idx
InverseName(acc, reg, tr, key, idx) ==
    IF ListKey(key, tr.s, idx) \notin DOMAIN reg
    THEN [acc EXCEPT !.exc = ScalerKeyError(ListKey(key, tr.s, idx))]
    ELSE [acc EXCEPT
            !.data = InverseFrame(acc.data, reg[ListKey(key, tr.s, idx)].scaler),
            !.calls = Append(acc.calls,
                             Call("inverse", key, tr.s, idx, ListKey(key, tr.s, idx)))]

\* the loop body for the entry tr at position idx (lines 306-321)
InverseListStep(acc, reg, columns, tr, key, idx, pad) ==
    IF IsStr(tr) THEN InverseName(acc, reg, tr, key, idx)
    ELSE Only({ IF IsExc(m) THEN [acc EXCEPT !.exc = m]
                ELSE IF IsNone(m) THEN acc
                ELSE IF ~AnyFeatureIn(acc.data, GetFeatures(tr, columns)) THEN acc
                ELSE InverseDescriptor(acc, reg, GetFeatures(tr, columns), key, m.s, idx,
                                       ListKey(key, m.s, idx), pad) :
                m \in {SubscriptKey(tr, "method")} })

\* list(enumerate(transformation)) without reversed(): the positions, first first
ForwardPositions(trans) == [i \in 1..Len(trans.items) |-> i - 1]

\* reversed(list(enumerate(transformation))): the positions, last first
ReversedPositions(trans) == [i \in 1..Len(trans.items) |-> Len(trans.items) - i]

\* the loop of the list branch (lines 305-321) over the positions order[i..]
RECURSIVE InverseList(_, _, _, _, _, _, _, _)
InverseList(acc, reg, columns, trans, key, order, i, pad) ==
    IF IsExc(acc.exc) \/ i > Len(order) THEN acc
    ELSE Only({ InverseList(a, reg, columns, trans, key, order, i + 1, pad) :
                a \in {InverseListStep(acc, reg, columns, trans.items[order[i] + 1], key,
                                       order[i], pad)} })

\* transformed_data[:, dummy_features:] (line 300) on the rows v: a Python
\* slice, whose negative start counts from the end
StripDummy(v, dummy_features) ==
    [r \in DOMAIN v |->
       SubSeq(v[r],
              (IF dummy_features >= 0 THEN dummy_features
               ELSE IF Len(v[r]) + dummy_features > 0 THEN Len(v[r]) + dummy_features
               ELSE 0) + 1,
              Len(v[r]))]

\* lines 296-301: the data conformed to the fitted shape, inverted by the
\* fitted scaler, the dummy columns cut off the front: an ndarray
InverseConformed(acc, sc, c, trans, key) ==
    IF IsExc(c.exc) THEN [acc EXCEPT !.exc = c.exc]
    ELSE IF NCols(c.data.v) # Len(sc.params)
    THEN [acc EXCEPT !.exc = Exc("ValueError", "scaler: number of features")]
    ELSE [acc EXCEPT
            !.data = NdArray2(StripDummy(InverseRaw(c.data.v, sc), c.dummy_features)),
            !.calls = Append(acc.calls, Call("inverse", key, trans.s, -1, key))]

\* the branch of a single method name, were it to take the scaler with
\* self.scalers.pop(key) instead of self.scalers[key]
InverseStrPopping(acc, reg, trans, key, pad) ==
    IF key \notin DOMAIN reg
    THEN [acc EXCEPT !.exc = MissingKeyError(key, DOMAIN reg)]
    ELSE Only({ [a EXCEPT !.scalers = [k \in DOMAIN reg \ {key} |-> reg[k]]] :
                a \in {Only({ InverseConformed(acc, reg[key].scaler, c, trans, key) :
                              c \in {conform_shape(acc.data, reg[key].shape, None, pad)} })} })

\* the branch of a single method name (lines 288-301)
InverseStr(acc, reg, trans, key, pad) ==
    IF key \notin DOMAIN reg
    THEN [acc EXCEPT !.exc = MissingKeyError(key, DOMAIN reg)]
    ELSE Only({ InverseConformed(acc, reg[key].scaler, c, trans, key) :
                c \in {conform_shape(acc.data, reg[key].shape, None, pad)} })

\* the branch of a single descriptor (lines 323-331)
InverseDict(acc, reg, trans, key, pad) ==
    Only({ IF IsExc(features) THEN [acc EXCEPT !.exc = features]
           ELSE IF ~AnyFeatureIn(acc.data, features) THEN acc
           ELSE InverseDescriptor(acc, reg, features, key,
                  IF DictHas(trans, "method") /\ IsStr(DictGet(trans, "method"))
                  THEN DictGet(trans, "method").s ELSE "", -1, key, pad) :
           features \in {SubscriptKey(trans, "features")} })

\* _inverse_transform_2d on the 2-D values v: the data returned (an ndarray
\* from the branch of a method name, a DataFrame from the others), the
\* registry after the call, the calls made
_inverse_transform_2d(reg, v, columns, key, trans, pad) ==
    IF ~FrameFits(v, columns)
    THEN Raised(Exc("ValueError", "DataFrame: columns do not match the data"), reg, <<>>)
    ELSE Only({ IF IsNone(trans) THEN start
                ELSE IF IsStr(trans) THEN InverseStr(start, reg, trans, key, pad)
                ELSE IF IsList(trans)
                THEN InverseList(start, reg, columns, trans, key,
                                 ReversedPositions(trans), 1, pad)
                ELSE IF IsDict(trans) THEN InverseDict(start, reg, trans, key, pad)
                ELSE start :
                start \in {Outcome(None, DataFrame(ColumnLabels(columns), v), reg, <<>>)} })

-----------------------------------------------------------------------------
(* Transformations.__inverse_transform, _inverse_transform, inverse_transform *)

\* lines 274-277: one time step inverted and written to the buffer
InverseTimeStep(acc, data, feature_names, trans, key, time_step, pad) ==
    Only({ Merge(acc, r, IF IsExc(r.exc) THEN None
                         ELSE NdArray3(SetTimeSlice(acc.data.v3, time_step, r.data.v))) :
           r \in {_inverse_transform_2d(acc.scalers, TimeSlice(data.v3, time_step),
                                        feature_names, KeyJoin(key, Str(time_step)),
                                        trans, pad)} })

\* the loop over the time steps of a rank-3 array, from time_step on
RECURSIVE InverseTimeSteps(_, _, _, _, _, _, _)
InverseTimeSteps(acc, data, feature_names, trans, key, time_step, pad) ==
    IF IsExc(acc.exc) \/ time_step >= NTimeSteps(data.v3) THEN acc
    ELSE Only({ InverseTimeSteps(a, data, feature_names, trans, key, time_step + 1, pad) :
                a \in {InverseTimeStep(acc, data, feature_names, trans, key, time_step,
                                       pad)} })

\* __inverse_transform: one source, a rank-2 or rank-3 array
InverseTransformSource(reg, data, feature_names, trans, key, pad) ==
    IF ~IsNdArray(data) THEN Raised(Exc("AttributeError", "ndim"), reg, <<>>)
    ELSE IF data.ndim = 3
    THEN InverseTimeSteps(Outcome(None, NdArray3(NanLike(data.v3)), reg, <<>>),
                          data, feature_names, trans, key, 0, pad)
    ELSE _inverse_transform_2d(reg, data.v, feature_names, key, trans, pad)

\* lines 250-254: the source at position idx, inverted and appended
InverseListSource(acc, array, n, t, key, idx, pad) ==
    IF IsExc(n) THEN [acc EXCEPT !.exc = n]
    ELSE IF IsExc(t) THEN [acc EXCEPT !.exc = t]
    ELSE Only({ Merge(acc, r, IF IsExc(r.exc) THEN None
                              ELSE PyList(Append(acc.data.items, r.data))) :
                r \in {InverseTransformSource(acc.scalers, array, n, t,
                                              KeyJoin(key, Str(idx)), pad)} })

\* the loop of the list branch of _inverse_transform, from position idx on
RECURSIVE InverseListSources(_, _, _, _, _, _, _)
InverseListSources(acc, data, nms, trans, key, idx, pad) ==
    IF IsExc(acc.exc) \/ idx >= Len(data.items) THEN acc
    ELSE Only({ InverseListSources(a, data, nms, trans, key, idx + 1, pad) :
                a \in {Only({ InverseListSource(acc, data.items[idx + 1], nt[1], nt[2], key,
                                                idx, pad) :
                              nt \in {<<SubscriptIdx(nms, idx),
                                        SubscriptIdx(trans, idx)>>} })} })

\* lines 261-264: the source named src_name, inverted and stored
InverseDictSource(acc, array, n, t, key, src_name, pad) ==
    IF IsExc(n) THEN [acc EXCEPT !.exc = n]
    ELSE IF IsExc(t) THEN [acc EXCEPT !.exc = t]
    ELSE Only({ Merge(acc, r, IF IsExc(r.exc) THEN None
                              ELSE DictSet(acc.data, src_name, r.data)) :
                r \in {InverseTransformSource(acc.scalers, array, n, t,
                                              KeyJoin(key, src_name), pad)} })

\* the loop of the dict branch of _inverse_transform, from the i-th key on
RECURSIVE InverseDictSources(_, _, _, _, _, _, _)
InverseDictSources(acc, data, nms, trans, key, i, pad) ==
    IF IsExc(acc.exc) \/ i > Len(data.keys) THEN acc
    ELSE Only({ InverseDictSources(a, data, nms, trans, key, i + 1, pad) :
                a \in {Only({ InverseDictSource(acc, data.vals[i], nt[1], nt[2], key,
                                                data.keys[i], pad) :
                              nt \in {<<SubscriptKey(nms, data.keys[i]),
                                        SubscriptKey(trans, data.keys[i])>>} })} })

\* lines 243-267, with transformation = self.transformation(data) in trans;
\* the variant is the one the last fit_transform recorded, and before any,
\* reading self.is_numpy_ raises AttributeError
InverseSources(reg, numpy, list, dict, nms, trans, data, key, pad) ==
    IF numpy = "unset" THEN Raised(Exc("AttributeError", "is_numpy_"), reg, <<>>)
    ELSE IF numpy = "True"
    THEN InverseTransformSource(reg, data, nms, trans, key, pad)
    ELSE IF list = "True"
    THEN IF ~IsList(data)
         THEN Raised(Exc("AssertionError", "isinstance(data, list)"), reg, <<>>)
         ELSE InverseListSources(Outcome(None, PyList(<<>>), reg, <<>>),
                                 data, nms, trans, key, 0, pad)
    ELSE IF dict = "True"
    THEN IF ~IsDict(data)
         THEN Raised(Exc("AssertionError", "isinstance(data, dict)"), reg, <<>>)
         ELSE InverseDictSources(Outcome(None, PyDict(<<>>, <<>>), reg, <<>>),
                                 data, nms, trans, key, 1, pad)
    ELSE Outcome(None, data, reg, <<>>)

\* _inverse_transform
_inverse_transform(reg, numpy, list, dict, nms, cfg, data, key, pad) ==
    Only({ InverseSources(reg, numpy, list, dict, nms, trans, data, key, pad) :
           trans \in {transformation(cfg, data)} })

\* inverse_transform: what it returns or raises, and the registry after it
inverse_transform(reg, numpy, list, dict, nms, cfg, data, pad) ==
    _inverse_transform(reg, numpy, list, dict, nms, cfg, data, BaseKey, pad)

-----------------------------------------------------------------------------
(* make_space (ai4water/_optimize.py) *)

\* Categorical(categories, name=name) of ai4water.hyperopt: one dimension of
\* the search space.  The class is not among the sources; it is modelled as
\* the pair it is constructed from.
Categorical(categories, name) ==
    [t |-> "Categorical", categories |-> categories, name |-> name]
IsCategorical(x) == x.t = "Categorical"

\* d.pop(k) of a present key: the other keys keep their order
DictPop(d, k) ==
    PyDict(SelectSeq(d.keys, LAMBDA x : x # k),
           [i \in 1..(Len(d.keys) - 1) |->
              d.vals[IF i < IndexOf(d.keys, k) THEN i ELSE i + 1]])

\* the state of make_space between two statements: the dict under
\* construction, or the exception raised
Building(exc, d) == [exc |-> exc, d |-> d]

\* a variant that keeps one dimension per entry of input_features, as a list
\* comprehension would
RECURSIVE DefaultSpaceList(_, _, _, _)
DefaultSpaceList(d, input_features, categories, i) ==
    IF i > Len(input_features.items) THEN d
    ELSE Only({ DefaultSpaceList(e, input_features, categories, i + 1) :
                e \in {PyDict(Append(d.keys, input_features.items[i].s),
                              Append(d.vals, Categorical(categories,
                                                         input_features.items[i].s)))} })

\* line 238-240: {name: Categorical(categories, name=name) for name in
\* input_features}, from the i-th name on
RECURSIVE DefaultSpace(_, _, _, _)
DefaultSpace(d, input_features, categories, i) ==
    IF i > Len(input_features.items) THEN d
    ELSE Only({ DefaultSpace(e, input_features, categories, i + 1) :
                e \in {DictSet(d, input_features.items[i].s,
                               Categorical(categories, input_features.items[i].s))} })

\* lines 247-253: one entry feat of an include list
IncludeListStep(acc, feat, input_features, categories) ==
    IF feat \notin Range(input_features.items)
    THEN [acc EXCEPT !.exc = Exc("AssertionError", "include: not in input_features")]
    ELSE IF IsStr(feat) THEN [acc EXCEPT !.d = DictSet(acc.d, feat.s, categories)]
    ELSE IF ~(IsDict(feat) /\ Len(feat.keys) = 1)
    THEN [acc EXCEPT !.exc = Exc("AssertionError", "include: dict of one entry")]
    ELSE [acc EXCEPT !.d = DictSet(acc.d, feat.keys[1], feat.vals[1])]

\* lines 245-254: the loop over an include list, from its i-th entry on
RECURSIVE IncludeList(_, _, _, _, _)
IncludeList(acc, include, input_features, categories, i) ==
    IF IsExc(acc.exc) \/ i > Len(include.items) THEN acc
    ELSE Only({ IncludeList(a, include, input_features, categories, i + 1) :
                a \in {IncludeListStep(acc, include.items[i], input_features,
                                       categories)} })

\* lines 242-256: include brought to a dict feature -> candidates
IncludeDict(include, input_features, categories) ==
    IF IsStr(include) THEN Building(None, PyDict(<<include.s>>, <<categories>>))
    ELSE IF IsList(include)
    THEN IncludeList(Building(None, PyDict(<<>>, <<>>)), include, input_features,
                     categories, 1)
    ELSE IF ~(IsDict(include) /\ Len(include.keys) = 1)
    THEN Building(Exc("AssertionError", "include: dict of one entry"), include)
    ELSE Building(None, include)

\* a variant that keeps the dimension a name already has (space.setdefault(k, v))
SetDimensionKeep(acc, k, v) ==
    IF DictHas(acc.d, k) THEN acc
    ELSE IF IsCategorical(v) THEN [acc EXCEPT !.d = DictSet(acc.d, k, v)]
    ELSE IF ~IsList(v) THEN [acc EXCEPT !.exc = Exc("AssertionError", "space must be list")]
    ELSE [acc EXCEPT !.d = DictSet(acc.d, k, Categorical(v, k))]

\* a variant that moves an overwritten name to the end (del space[k]; space[k] = v)
SetDimensionReinsert(acc, k, v) ==
    IF IsCategorical(v) \/ ~IsList(v) THEN acc
    ELSE [acc EXCEPT !.d = DictSet(IF DictHas(acc.d, k) THEN DictPop(acc.d, k) ELSE acc.d,
                                   k, Categorical(v, k))]

\* lines 261-264 and 276-279: space[k] = v, v made a Categorical when it is a list
SetDimension(acc, k, v) ==
    IF IsCategorical(v) THEN [acc EXCEPT !.d = DictSet(acc.d, k, v)]
    ELSE IF ~IsList(v) THEN [acc EXCEPT !.exc = Exc("AssertionError", "space must be list")]
    ELSE [acc EXCEPT !.d = DictSet(acc.d, k, Categorical(v, k))]

\* for k, v in src.items(): space[k] = v, from the i-th item on
RECURSIVE SetDimensions(_, _, _)
SetDimensions(acc, src, i) ==
    IF IsExc(acc.exc) \/ i > Len(src.keys) THEN acc
    ELSE Only({ SetDimensions(a, src, i + 1) :
                a \in {SetDimension(acc, src.keys[i], src.vals[i])} })

\* lines 242-264: the space after include
AfterInclude(space, include, input_features, categories) ==
    IF IsNone(include) THEN Building(None, space)
    ELSE Only({ IF IsExc(inc.exc) THEN inc
                ELSE SetDimensions(Building(None, PyDict(<<>>, <<>>)), inc.d, 1) :
                inc \in {IncludeDict(include, input_features, categories)} })

\* a variant that skips the names the space does not hold (space.pop(feat, None))
RECURSIVE PopAllSilent(_, _, _)
PopAllSilent(acc, exclude, i) ==
    IF IsExc(acc.exc) \/ i > Len(exclude.items) THEN acc
    ELSE Only({ PopAllSilent(a, exclude, i + 1) :
                a \in {IF DictHas(acc.d, exclude.items[i].s)
                       THEN [acc EXCEPT !.d = DictPop(acc.d, exclude.items[i].s)]
                       ELSE acc} })

\* lines 270-271: for feat in exclude: space.pop(feat), from the i-th on
RECURSIVE PopAll(_, _, _)
PopAll(acc, exclude, i) ==
    IF IsExc(acc.exc) \/ i > Len(exclude.items) THEN acc
    ELSE Only({ PopAll(a, exclude, i + 1) :
                a \in {IF DictHas(acc.d, exclude.items[i].s)
                       THEN [acc EXCEPT !.d = DictPop(acc.d, exclude.items[i].s)]
                       ELSE [acc EXCEPT !.exc = KeyError(exclude.items[i].s)]} })

\* lines 266-271: the space after exclude
AfterExclude(acc, exclude) ==
    IF IsExc(acc.exc) \/ IsNone(exclude) THEN acc
    ELSE IF IsStr(exclude) THEN PopAll(acc, PyList(<<exclude>>), 1)
    ELSE IF ~IsList(exclude)
    THEN [acc EXCEPT !.exc = Exc("AssertionError", "isinstance(exclude, list)")]
    ELSE PopAll(acc, exclude, 1)

\* lines 273-279: the space after append
AfterAppend(acc, append) ==
    IF IsExc(acc.exc) \/ IsNone(append) THEN acc
    ELSE IF ~IsDict(append)
    THEN [acc EXCEPT !.exc = Exc("AssertionError", "isinstance(append, dict)")]
    ELSE SetDimensions(acc, append, 1)

\* a variant that applies append before exclude
make_space_append_first(input_features, categories, include, exclude, append) ==
    Only({ IF IsExc(r.exc) THEN r.exc ELSE PyList(r.d.vals) :
           r \in {AfterExclude(
                    AfterAppend(
                      AfterInclude(DefaultSpace(PyDict(<<>>, <<>>), input_features,
                                                categories, 1),
                                   include, input_features, categories),
                      append),
                    exclude)} })

\* make_space: list(space.values()), or the exception raised
make_space(input_features, categories, include, exclude, append) ==
    Only({ IF IsExc(r.exc) THEN r.exc ELSE PyList(r.d.vals) :
           r \in {Only({ AfterAppend(e, append) :
                         e \in {Only({ AfterExclude(inc, exclude) :
                                       inc \in {AfterInclude(
                                                  DefaultSpace(PyDict(<<>>, <<>>),
                                                               input_features,
                                                               categories, 1),
                                                  include, input_features,
                                                  categories)} })} })} })

-----------------------------------------------------------------------------
(* OptimizeTransformations.update (ai4water/_optimize.py) *)

PyTrue == [t |-> "bool", b |-> TRUE]

\* method.startswith("log"), over the method names of the model
StartsWithLog(method) == method \in {"log", "log2", "log10"}

\* lines 194-204: the descriptor of one suggestion
SuggestedDescriptor(feature, method) ==
    Only({ IF StartsWithLog(method) \/ method \in {"box-cox", "yeo-johnson", "power"}
              \/ method = "sqrt"
           THEN DictSet(DictSet(t, "treat_negatives", PyTrue), "replace_zeros", PyTrue)
           ELSE t :
           t \in {PyDict(<<"method", "features">>,
                         <<PyStr(method), PyList(<<PyStr(feature)>>)>>)} })

\* lines 191-209: one suggestion; acc holds transformations and y_transformations
UpdateStep(acc, input_features, feature, method) ==
    IF method = PyStr("none") THEN acc
    ELSE IF PyStr(feature) \in Range(input_features.items)
    THEN [acc EXCEPT !.x = Append(@, SuggestedDescriptor(feature, method.s))]
    ELSE [acc EXCEPT !.y = Append(@, SuggestedDescriptor(feature, method.s))]

\* lines 189-209: for feature, method in suggestions.items(), from the i-th on
RECURSIVE UpdateLoop(_, _, _, _)
UpdateLoop(acc, input_features, sugg, i) ==
    IF i > Len(sugg.keys) THEN acc
    ELSE Only({ UpdateLoop(a, input_features, sugg, i + 1) :
                a \in {UpdateStep(acc, input_features, sugg.keys[i], sugg.vals[i])} })

\* a variant that keeps an empty list ([] instead of [] or None)
OrSelf(x) == x

\* x or None (line 213)
OrNone(x) == IF Truthy(x) THEN x ELSE None

\* update(config, suggestions): the config dict after the call
update(input_features, cfg, sugg) ==
    Only({ DictSet(DictSet(cfg, "x_transformation", PyList(acc.x)),
                   "y_transformation", OrNone(PyList(acc.y))) :
           acc \in {UpdateLoop([x |-> <<>>, y |-> <<>>], input_features, sugg, 1)} })

-----
(* The coordinators and the inputs of the model *)

Strs(names_) == PyList([i \in DOMAIN names_ |-> PyStr(names_[i])])
AB == Strs(<<"a", "b">>)

\* the tables: two rows, cells that differ by row, column, time step and base
Table2(b, ncols) == [r \in 1..2 |-> [c \in 1..ncols |-> b + 2 * (r - 1) + 3 * (c - 1)]]
Table3(b, ntime, ncols) ==
    [e \in 1..2 |-> [ts \in 1..ntime |-> [c \in 1..ncols |->
        b + 2 * (e - 1) + 3 * (c - 1) + 5 * (ts - 1)]]]

\* feature_names and config of the coordinators constructed
Coordinators ==
    { [names |-> AB, config |-> None],
      [names |-> AB, config |-> PyStr("minmax")],
      [names |-> AB, config |-> Strs(<<"minmax", "zscore">>)],
      [names |-> AB, config |-> Strs(<<"minmax", "minmax">>)],
      [names |-> AB, config |-> Descriptor(PyStr("zscore"), Strs(<<"a">>))],
      [names |-> AB, config |-> DescriptorNoFeatures(PyStr("minmax"))],
      [names |-> PyList(<<AB, AB>>), config |-> PyStr("minmax")],
      [names |-> PyList(<<AB, AB>>),
       config |-> PyList(<<Strs(<<"minmax", "zscore">>), Strs(<<"minmax", "zscore">>)>>)],
      [names |-> PyList(<<AB, AB>>), config |-> PyList(<<None, PyStr("minmax")>>)],
      [names |-> PyDict(<<"x", "x_0">>, <<AB, AB>>), config |-> PyStr("minmax")],
      [names |-> PyDict(<<"x", "x_0">>, <<AB, AB>>),
       config |-> PyDict(<<"x", "x_0">>,
                         <<Strs(<<"minmax", "zscore">>), Strs(<<"minmax", "zscore">>)>>)],
      [names |-> PyDict(<<"x", "x_0">>, <<AB, AB>>),
       config |-> PyDict(<<"x", "x_0">>,
                         <<PyStr("zscore"),
                           PyList(<<Descriptor(PyStr("minmax"), AB),
                                    Descriptor(PyStr("zscore"), Strs(<<"b">>))>>)>>)] }

Bases == 1..MaxVal
Other(b) == (b % MaxVal) + 1

Arrays ==
    {NdArray2(Table2(b, 2)) : b \in Bases}
    \cup {NdArray2(Table2(1, 1))}
    \cup {NdArray3(Table3(1, nt, 2)) : nt \in 1..MaxTime}

\* the pairs of sources a list or a mapping is made of: two tables, or a
\* rank-3 array and a table
SourcePairs ==
    {<<NdArray2(Table2(b, 2)), NdArray2(Table2(Other(b), 2))>> : b \in Bases}
    \cup {<<NdArray3(Table3(1, MaxTime, 2)), NdArray2(Table2(MaxVal, 2))>>}

\* the data fit_transform is called with
Inputs ==
    Arrays
    \cup {PyList(p) : p \in SourcePairs}
    \cup {PyDict(<<"x", "x_0">>, p) : p \in SourcePairs}
    \cup {PyTuple(<<>>)}

\* the data inverse_transform is called with, besides what the last
\* fit_transform returned: one of every container variant and rank
InverseInputs ==
    {NdArray2(Table2(1, 2)), NdArray2(Table2(1, 1)), NdArray3(Table3(1, MaxTime, 2)),
     PyList(<<NdArray2(Table2(1, 2)), NdArray2(Table2(MaxVal, 2))>>),
     PyDict(<<"x", "x_0">>, <<NdArray2(Table2(1, 2)), NdArray2(Table2(MaxVal, 2))>>),
     PyTuple(<<>>)}

-----------------------------------------------------------------------------
(* The state machine *)

\* Transformations.__init__
Init ==
    /\ \E c \in Coordinators : names = c.names /\ config = c.config
    /\ scalers = EmptyRegistry
    /\ is_numpy_ = "unset" /\ is_list_ = "unset" /\ is_dict_ = "unset"
    /\ op = "__init__" /\ arg = None /\ ret = None /\ calls = <<>>
    /\ fit_arg = None /\ fit_ret = None /\ fit_calls = <<>> /\ fresh = FALSE
    /\ refit = FALSE
    /\ space_args = None /\ space_ret = None
    /\ conform_args = None /\ conform_ret = None /\ stripped = None
    /\ model_input_features = None /\ trial_config = None /\ suggestions = None

\* a call of fit_transform(data)
FitTransform(data) ==
    \E r \in {fit_transform(scalers, is_numpy_, is_list_, is_dict_, names, config, data)} :
       /\ op' = "fit_transform" /\ arg' = data
       /\ ret' = IF IsExc(r.exc) THEN r.exc ELSE r.data
       /\ scalers' = r.scalers /\ calls' = r.calls
       /\ is_numpy_' = r.is_numpy_ /\ is_list_' = r.is_list_ /\ is_dict_' = r.is_dict_
       /\ IF IsExc(r.exc)
          THEN fresh' = FALSE /\ UNCHANGED <<fit_arg, fit_ret, fit_calls>>
          ELSE fresh' = TRUE /\ fit_arg' = data /\ fit_ret' = r.data /\ fit_calls' = r.calls
       /\ refit' = (/\ ~IsExc(r.exc)
                    /\ \E k \in DOMAIN scalers : r.scalers[k] # scalers[k])
       /\ UNCHANGED <<names, config, space_args, space_ret, conform_args, conform_ret,
                      stripped, model_input_features, trial_config, suggestions>>

\* a call of inverse_transform(data)
InverseTransform(data, pad) ==
    \E r \in {inverse_transform(scalers, is_numpy_, is_list_, is_dict_, names, config,
                               data, pad)} :
       /\ op' = "inverse_transform" /\ arg' = data
       /\ ret' = IF IsExc(r.exc) THEN r.exc ELSE r.data
       /\ scalers' = r.scalers /\ calls' = r.calls
       /\ UNCHANGED <<names, config, is_numpy_, is_list_, is_dict_,
                      fit_arg, fit_ret, fit_calls, fresh, refit, space_args, space_ret,
                      conform_args, conform_ret, stripped, model_input_features, trial_config, suggestions>>

Next ==
    \/ \E data \in Inputs : FitTransform(data)
    \/ \E data \in InverseInputs \cup {fit_ret}, pad \in PadVals : InverseTransform(data, pad)

Spec == Init /\ [][Next]_vars

-----------------------------------------------------------------------------
(* make_space as a state machine: the arguments are drawn, the call is made *)

ABC == Strs(<<"a", "b", "c">>)
Categories == Strs(<<"none", "log", "minmax">>)
\* {feature: candidate_list} with a single candidate
Candidates(feature, method) == PyDict(<<feature>>, <<Strs(<<method>>)>>)

\* the include arguments: absent, a name, a list of names or of pairs, a mapping
Includes ==
    { None, PyStr("a"), PyStr("z"),
      Strs(<<"a", "b">>), Strs(<<"b", "a">>), Strs(<<"a", "z">>), Strs(<<"c", "a", "c">>),
      PyList(<<Candidates("a", "log")>>),
      PyList(<<PyStr("a"), Candidates("b", "log")>>),
      Candidates("a", "log"), Candidates("c", "sqrt"), Candidates("z", "log"),
      PyDict(<<"a", "b">>, <<Strs(<<"log">>), Strs(<<"sqrt">>)>>),
      PyTuple(<<>>) }

\* the exclude arguments: absent, a name, a list of names
Excludes ==
    { None, PyStr("a"), PyStr("c"), PyStr("z"),
      Strs(<<"a">>), Strs(<<"a", "b">>), Strs(<<"b", "a">>), Strs(<<"a", "a">>),
      Strs(<<"d">>), PyTuple(<<>>) }

\* the append arguments: absent, a mapping name -> candidate list
Appends ==
    { None, Candidates("d", "zscore"), Candidates("a", "zscore"),
      PyDict(<<"b", "d">>, <<Strs(<<"zscore">>), Strs(<<"log">>)>>),
      PyDict(<<"d", "a">>, <<Strs(<<"zscore">>), Strs(<<"log", "sqrt">>)>>),
      PyDict(<<"d">>, <<PyStr("zscore")>>),
      PyTuple(<<>>) }

SpaceArgs ==
    { [input_features |-> f, categories |-> Categories,
       include |-> i, exclude |-> e, append |-> a] :
      f \in {ABC, Strs(<<"b", "a">>), Strs(<<"a", "b", "a">>)}, i \in Includes, e \in Excludes, a \in Appends }

\* no coordinator is in use; the arguments of make_space are chosen
SpaceInit ==
    /\ names = AB /\ config = None
    /\ scalers = EmptyRegistry
    /\ is_numpy_ = "unset" /\ is_list_ = "unset" /\ is_dict_ = "unset"
    /\ op = "__init__" /\ arg = None /\ ret = None /\ calls = <<>>
    /\ fit_arg = None /\ fit_ret = None /\ fit_calls = <<>> /\ fresh = FALSE
    /\ refit = FALSE
    /\ space_args \in SpaceArgs /\ space_ret = None
    /\ conform_args = None /\ conform_ret = None /\ stripped = None
    /\ model_input_features = None /\ trial_config = None /\ suggestions = None

\* the call make_space(input_features, categories, include, exclude, append)
MakeSpace ==
    /\ IsNone(space_ret)
    /\ space_ret' = make_space(space_args.input_features, space_args.categories,
                               space_args.include, space_args.exclude, space_args.append)
    /\ UNCHANGED <<names, config, scalers, is_numpy_, is_list_, is_dict_, op, arg, ret,
                   calls, fit_arg, fit_ret, fit_calls, fresh, refit, space_args,
                   conform_args, conform_ret, stripped, model_input_features, trial_config, suggestions>>

SpaceNext == MakeSpace

SpaceSpec == SpaceInit /\ [][SpaceNext]_vars

-----------------------------------------------------------------------------
(* conform_shape as a state machine: the arguments are drawn, the call is  *)
(* made, the dummy columns are cut off                                      *)

\* no coordinator is in use
CoordinatorIdle ==
    /\ names = AB /\ config = None
    /\ scalers = EmptyRegistry
    /\ is_numpy_ = "unset" /\ is_list_ = "unset" /\ is_dict_ = "unset"
    /\ op = "__init__" /\ arg = None /\ ret = None /\ calls = <<>>
    /\ fit_arg = None /\ fit_ret = None /\ fit_calls = <<>> /\ fresh = FALSE
    /\ refit = FALSE

\* the tables: DataFrames of 2 and 3 columns, arrays of rank 1, 2 and 3
ConformTables ==
    { DataFrame(<<"a", "b">>, Table2(1, 2)),
      DataFrame(<<"a", "b", "c">>, Table2(1, 3)),
      NdArray1(<<1, 3>>),
      NdArray2(Table2(1, 1)), NdArray2(Table2(1, 2)), NdArray2(Table2(1, 3)),
      NdArray3(Table3(1, 2, 1)), NdArray3(Table3(1, 2, 2)) }

\* the recorded shapes
ConformShapes == { <<2>>, <<2, 1>>, <<2, 2>>, <<2, 3>>, <<2, 5>>, <<2, 2, 1>>, <<2, 2, 2>> }

\* the features argument
ConformFeatures ==
    { None, PyList(<<>>), Strs(<<"a", "b">>), Strs(<<"a", "c">>), Strs(<<"c">>),
      Strs(<<"a", "b", "c", "d", "e">>) }

ConformArgs ==
    { [data |-> d, shape |-> s, features |-> f, pad |-> p] :
      d \in ConformTables, s \in ConformShapes, f \in ConformFeatures, p \in PadVals }

ConformInit ==
    /\ CoordinatorIdle
    /\ space_args = None /\ space_ret = None
    /\ conform_args \in ConformArgs /\ conform_ret = None /\ stripped = None
    /\ model_input_features = None /\ trial_config = None /\ suggestions = None

\* the call conform_shape(data, shape, features): the pair returned, or the
\* exception
Conform ==
    /\ IsNone(conform_ret)
    /\ \E c \in {conform_shape(conform_args.data, conform_args.shape,
                                conform_args.features, conform_args.pad)} :
          conform_ret' = (IF IsExc(c.exc) THEN c.exc
                          ELSE [t |-> "tuple", data |-> c.data,
                                dummy_features |-> c.dummy_features])
    /\ UNCHANGED <<names, config, scalers, is_numpy_, is_list_, is_dict_, op, arg, ret,
                   calls, fit_arg, fit_ret, fit_calls, fresh, refit, space_args, space_ret,
                   conform_args, stripped, model_input_features, trial_config,
                   suggestions>>

\* line 300 on the table conform_shape(data, shape) returned:
\* data = transformed_data[:, dummy_features:]
Strip ==
    /\ conform_ret.t = "tuple" /\ IsNone(stripped)
    /\ IsNone(conform_args.features)
    /\ stripped' = NdArray2(StripDummy(conform_ret.data.v, conform_ret.dummy_features))
    /\ UNCHANGED <<names, config, scalers, is_numpy_, is_list_, is_dict_, op, arg, ret,
                   calls, fit_arg, fit_ret, fit_calls, fresh, refit, space_args, space_ret,
                   conform_args, conform_ret, model_input_features, trial_config,
                   suggestions>>

ConformNext == Conform \/ Strip

ConformSpec == ConformInit /\ [][ConformNext]_vars

-----------------------------------------------------------------------------
(* OptimizeTransformations.update as a state machine: an optimizer is      *)
(* constructed, update is called once per trial                             *)

\* the methods the optimizer suggests
SuggestedMethods == {"none", "minmax", "log", "sqrt"}

\* the features suggested, in the order of the suggestions; y is the output
\* feature
SuggestedFeatures ==
    { <<>>, <<"a">>, <<"y">>, <<"a", "b">>, <<"b", "a">>, <<"a", "y">>, <<"y", "a">>,
      <<"a", "b", "y">> }

\* the suggestions of a trial: {feature: method}
Suggestions ==
    UNION { { PyDict(fs, [i \in DOMAIN fs |-> PyStr(ms[i])]) :
              ms \in [DOMAIN fs -> SuggestedMethods] } : fs \in SuggestedFeatures }

\* the config dicts update is handed first: without and with transformations
\* given by the user
TrialConfigs ==
    { PyDict(<<"lr">>, <<PyStr("0.1")>>),
      PyDict(<<"y_transformation", "lr", "x_transformation">>,
             <<PyStr("log"), PyStr("0.1"), PyStr("minmax")>>) }

\* OptimizeTransformations.__init__: self.input_features = model.input_features
UpdateInit ==
    /\ CoordinatorIdle
    /\ space_args = None /\ space_ret = None
    /\ conform_args = None /\ conform_ret = None /\ stripped = None
    /\ model_input_features \in {AB, Strs(<<"a">>)}
    /\ trial_config \in TrialConfigs
    /\ suggestions = None

\* a call of update(config, suggestions)
Update(sugg) ==
    /\ trial_config' = update(model_input_features, trial_config, sugg)
    /\ suggestions' = sugg
    /\ UNCHANGED <<names, config, scalers, is_numpy_, is_list_, is_dict_, op, arg, ret,
                   calls, fit_arg, fit_ret, fit_calls, fresh, refit, space_args, space_ret,
                   conform_args, conform_ret, stripped, model_input_features>>

UpdateNext == \E sugg \in Suggestions : Update(sugg)

UpdateSpec == UpdateInit /\ [][UpdateNext]_vars

-----------------------------------------------------------------------------
(* What the properties below speak of *)

\* the sources of a container, in order (an array is its own single source)
SourcesOf(x) ==
    CASE IsList(x) -> x.items
      [] IsDict(x) -> x.vals
      [] OTHER     -> <<x>>

\* the variant the last fit_transform recorded
RecordedVariant ==
    IF is_numpy_ = "True" THEN "ndarray"
    ELSE IF is_list_ = "True" THEN "list"
    ELSE IF is_dict_ = "True" THEN "dict"
    ELSE "none"

IsArrayLike(x) == "ndim" \in DOMAIN x
ShapeOf(x) ==
    IF x.ndim = 3 THEN <<Len(x.v3), NTimeSteps(x.v3), NCols(TimeSlice(x.v3, 0))>>
    ELSE Shape2(x.v)

\* two arrays (of whatever kind) hold the same cells
SameCells(x, y) ==
    /\ IsArrayLike(x) /\ IsArrayLike(y)
    /\ x.ndim = y.ndim
    /\ IF x.ndim = 3 THEN x.v3 = y.v3 ELSE x.v = y.v

\* two containers of the same variant hold the same cells, source by source
SameData(x, y) ==
    /\ IsList(x) <=> IsList(y)
    /\ IsDict(x) <=> IsDict(y)
    /\ IsDict(x) => x.keys = y.keys
    /\ Len(SourcesOf(x)) = Len(SourcesOf(y))
    /\ \A i \in DOMAIN SourcesOf(x) : SameCells(SourcesOf(x)[i], SourcesOf(y)[i])

\* y is an array of the kind and shape of x
SameKindAndShape(x, y) ==
    /\ IsArrayLike(x) /\ IsArrayLike(y)
    /\ x.t = y.t /\ x.ndim = y.ndim
    /\ ShapeOf(x) = ShapeOf(y)

\* a single method name or a single descriptor
SingleMethod(cfg) == IsStr(cfg) \/ (IsDict(cfg) /\ DictHas(cfg, "method"))

\* the identifier, the feature names and the spec of the i-th source of data
SourceId(data, i) == IF IsList(data) THEN Str(i - 1) ELSE data.keys[i]
SourceNames(data, i) ==
    IF IsList(data) THEN SubscriptIdx(names, i - 1) ELSE SubscriptKey(names, data.keys[i])
SourceSpec(data, i) ==
    IF IsList(data) THEN SubscriptIdx(transformation(config, data), i - 1)
    ELSE SubscriptKey(transformation(config, data), data.keys[i])

\* the registry keys the forward pass of the i-th source of data writes
WrittenKeys(data, i) ==
    DOMAIN FitTransformSource(EmptyRegistry, SourcesOf(data)[i], SourceNames(data, i),
                              SourceSpec(data, i),
                              KeyJoin(BaseKey, SourceId(data, i))).scalers

\* the registry with the entries under keys replaced by other fitted values
Corrupted(reg, keys) ==
    [k \in DOMAIN reg |->
       IF k \in keys
       THEN [reg[k] EXCEPT !.scaler.params = [j \in DOMAIN @ |-> @[j] + 1]]
       ELSE reg[k]]

\* what inverse-transforming the i-th source of data gives with registry reg
InverseOfSource(reg, data, i, pad) ==
    Only({ <<r.exc, r.data>> :
           r \in {InverseTransformSource(reg, SourcesOf(data)[i], SourceNames(data, i),
                                         SourceSpec(data, i),
                                         KeyJoin(BaseKey, SourceId(data, i)), pad)} })

\* a sequence, last element first
Reverse(s) == [i \in 1..Len(s) |-> s[Len(s) + 1 - i]]

\* the (method, position, key) of the calls made for the base key b
CallsOf(cs, b) ==
    Only({ [i \in DOMAIN sel |-> <<sel[i].method, sel[i].idx, sel[i].key>>] :
           sel \in {SelectSeq(cs, LAMBDA c : c.base = b /\ c.idx >= 0)} })

-----------------------------------------------------------------------------
(* Properties *)

\* C1: for every container variant and every single-method spec,
\* inverse_transform(fit_transform(data)) on the same instance returns data
\* equal to the original, source by source.
C1_RoundTrip ==
    (/\ op = "inverse_transform" /\ fresh /\ arg = fit_ret
     /\ SingleMethod(config))
    => SameData(fit_arg, ret)

\* C2: when the spec of a source is a list [m0, ..., mk], inverse_transform
\* invokes the inverse primitives in the order mk, ..., m0, each with the
\* scaler stored under the key the forward pass wrote for that position.
C2_ReverseOrder ==
    (/\ op = "inverse_transform" /\ fresh /\ arg = fit_ret
     /\ ~IsExc(ret))
    => \A b \in {fit_calls[i].base : i \in DOMAIN fit_calls} :
          CallsOf(calls, b) = Reverse(CallsOf(fit_calls, b))

\* a round trip through a list of two methods has inverted both, the last first
C2_Witness ==
    /\ op = "inverse_transform" /\ fresh /\ arg = fit_ret /\ ~IsExc(ret)
    /\ config = Strs(<<"minmax", "zscore">>)
    /\ calls = <<Call("inverse", "5", "zscore", 1, "5_zscore_1"),
                 Call("inverse", "5", "minmax", 0, "5_minmax_0")>>
    /\ fit_calls = <<Call("transformation", "5", "minmax", 0, "5_minmax_0"),
                     Call("transformation", "5", "zscore", 1, "5_zscore_1")>>

\* C3: for every spec form, an inverse_transform that needs a registry key
\* no fit_transform populated fails with the error that names the missing key
\* and lists the available keys.
C3_MissingKeyReported ==
    (/\ op = "inverse_transform" /\ IsExc(ret)
     /\ ret.at \in {"self.scalers", "key for inverse transformation not found"})
    => ret = MissingKeyError(ret.key, DOMAIN scalers)

\* C4: inverse_transform on an instance with a non-None config on which no
\* fit_transform has run (the variant flags were never set) fails with the
\* missing-key error.
C4_InverseBeforeFit ==
    (/\ op = "inverse_transform" /\ ~IsNone(config)
     /\ is_numpy_ = "unset")
    => /\ IsExc(ret)
       /\ ret.at = "key for inverse transformation not found"

\* C5: after fit_transform on two different sources with identical feature
\* names and identical method lists, replacing the registry entries of one
\* source does not change the result of inverse-transforming the other.
C5_IndependentEntries ==
    (/\ op = "fit_transform" /\ ~IsExc(ret) /\ ~IsNone(config)
     /\ (IsList(arg) \/ IsDict(arg)))
    => \A i, j \in DOMAIN SourcesOf(arg) :
          (/\ i # j
           /\ SourceNames(arg, i) = SourceNames(arg, j)
           /\ SourceSpec(arg, i) = SourceSpec(arg, j))
          => \A pad \in PadVals :
                InverseOfSource(Corrupted(scalers, WrittenKeys(arg, i)), ret, j, pad)
                = InverseOfSource(scalers, ret, j, pad)

\* C6: within one fit_transform call, distinct combinations of (source,
\* time step, method, position) are stored under distinct registry keys: no
\* entry written in the call overwrites another written in the same call.
C6_DistinctKeys ==
    (op = "fit_transform" /\ ~IsExc(ret))
    => \A i, j \in DOMAIN calls : i # j => calls[i].key # calls[j].key

\* C7: inverse_transform never changes the scaler registry, whether it
\* returns or fails.
C7_InverseKeepsRegistry ==
    [][op' = "inverse_transform" => scalers' = scalers]_vars

\* an inverse_transform has returned data on a populated registry
C7_Witness ==
    /\ op = "inverse_transform" /\ ~IsExc(ret)
    /\ DOMAIN scalers # {}
    /\ Len(calls) > 0

\* C8: whenever fit_transform returns, the returned container has the variant
\* of the input container, with the same number of sources or the same
\* source names.
C8_SameVariant ==
    (op = "fit_transform" /\ ~IsExc(ret))
    => /\ ret.t = arg.t
       /\ IsList(arg) => Len(ret.items) = Len(arg.items)
       /\ IsDict(arg) => ret.keys = arg.keys

\* fit_transform has transformed a mapping of two sources
C8_Witness ==
    /\ op = "fit_transform" /\ ~IsExc(ret)
    /\ IsDict(arg) /\ IsDict(ret) /\ ret.keys = <<"x", "x_0">>
    /\ Len(calls) > 0

\* C9: after a fit_transform recorded variant V, inverse_transform returns a
\* container of variant V whose every source is an array of the kind and
\* shape of the one passed in; given a container of another variant it fails.
C9_InverseKeepsKind ==
    (op = "inverse_transform" /\ RecordedVariant # "none")
    => IF arg.t # RecordedVariant THEN IsExc(ret)
       ELSE \/ IsExc(ret)
            \/ /\ ret.t = RecordedVariant
               /\ IsDict(arg) => ret.keys = arg.keys
               /\ Len(SourcesOf(ret)) = Len(SourcesOf(arg))
               /\ \A i \in DOMAIN SourcesOf(arg) :
                     SameKindAndShape(SourcesOf(arg)[i], SourcesOf(ret)[i])

\* C10: fit_transform with a non-None config on data that is neither an
\* array, a list nor a mapping fails with the ValueError of the
\* classification and writes no registry entry.
C10_InvalidInputKind ==
    [][(/\ op' = "fit_transform" /\ ~IsNone(config)
        /\ ~(IsNdArray(arg') \/ IsList(arg') \/ IsDict(arg')))
       => /\ ret' = Exc("ValueError", "fit_transform: data")
          /\ scalers' = scalers]_vars

\* fit_transform has refused a tuple on an instance whose registry is populated
C10_Witness ==
    /\ op = "fit_transform" /\ ~IsNone(config)
    /\ arg = PyTuple(<<>>)
    /\ ret = Exc("ValueError", "fit_transform: data")
    /\ DOMAIN scalers # {}

\* a flat list of feature names
FlatNames(n) == IsList(n) /\ \A i \in DOMAIN n.items : IsStr(n.items[i])

\* the feature-name structure nms matches the container data: a flat list for
\* an array, one flat list per source for a list, one per source name for a
\* mapping
NamesMatch(nms, data) ==
    CASE IsNdArray(data) -> FlatNames(nms)
      [] IsList(data) -> /\ IsList(nms) /\ Len(nms.items) = Len(data.items)
                         /\ \A i \in DOMAIN nms.items : FlatNames(nms.items[i])
      [] IsDict(data) -> /\ IsDict(nms) /\ Range(nms.keys) = Range(data.keys)
                         /\ \A i \in DOMAIN nms.vals : FlatNames(nms.vals[i])
      [] OTHER -> FALSE

\* C11: whenever the feature-name structure does not match the data
\* container, fit_transform fails with the AssertionError of _check_features
\* before any transform work, so no registry entry is written.
C11_InvalidFeatureSpec ==
    (/\ op = "fit_transform" /\ ~IsNone(config)
     /\ (IsNdArray(arg) \/ IsList(arg) \/ IsDict(arg))
     /\ ~NamesMatch(names, arg))
    => /\ ret = Exc("AssertionError", "feature_names")
       /\ calls = <<>>

\* C12: when the spec is None the table comes back unchanged in both
\* directions: for a coordinator whose config is None, and for any single
\* source whose spec is None, fit_transform followed by inverse_transform
\* returns the original array, same values and same kind, without error.
C12_NoneIsIdentity ==
    (op = "inverse_transform" /\ fresh /\ arg = fit_ret)
    => /\ IsNone(config) => (~IsExc(ret) /\ ret = fit_arg)
       /\ (~IsNone(config) /\ (IsList(arg) \/ IsDict(arg)))
          => \A i \in DOMAIN SourcesOf(arg) :
                IsNone(SourceSpec(arg, i))
                => /\ ~IsExc(ret)
                   /\ SourcesOf(ret)[i] = SourcesOf(fit_arg)[i]

\* the number of primitives a spec applies to one table
NMethods(spec) ==
    CASE IsStr(spec) -> 1
      [] IsDict(spec) -> 1
      [] IsList(spec) ->
           Cardinality({i \in DOMAIN spec.items :
                          \/ IsStr(spec.items[i])
                          \/ /\ IsDict(spec.items[i]) /\ DictHas(spec.items[i], "method")
                             /\ ~IsNone(DictGet(spec.items[i], "method"))})
      [] OTHER -> 0

\* no cell of the rank-3 array x is the fill of the scratch buffer
AllWritten(x) ==
    \A e \in DOMAIN x.v3 : \A ts \in DOMAIN x.v3[e] : \A f \in DOMAIN x.v3[e][ts] :
        x.v3[e][ts][f] # NaN

\* C13: for a rank-3 input of shape (E, T, F), fit_transform transforms each
\* of the T time slices exactly once, as a rank-2 table under a key tagged
\* with its time index, and returns an array of shape (E, T, F) in which
\* every cell was written by one of the slices.
C13_TimeSlices ==
    (op = "fit_transform" /\ ~IsExc(ret))
    => /\ \A i \in DOMAIN SourcesOf(arg) :
             (IsNdArray(SourcesOf(arg)[i]) /\ SourcesOf(arg)[i].ndim = 3)
             => /\ SameKindAndShape(SourcesOf(arg)[i], SourcesOf(ret)[i])
                /\ AllWritten(SourcesOf(ret)[i])
       /\ (IsNdArray(arg) /\ arg.ndim = 3 /\ ~IsNone(config))
          => /\ Len(calls) = NTimeSteps(arg.v3) * NMethods(config)
             /\ \A ts \in 0..(NTimeSteps(arg.v3) - 1) :
                   /\ Len(SelectSeq(calls, LAMBDA c : c.base = KeyJoin(BaseKey, Str(ts))))
                      = NMethods(config)
                   /\ \A j \in DOMAIN calls :
                         calls[j].base = KeyJoin(BaseKey, Str(ts))
                         => calls[j].key \in
                              {calls[j].base,
                               ListKey(calls[j].base, calls[j].method, calls[j].idx)}

\* fit_transform has applied a list of two methods to every time step of a
\* rank-3 array
C13_Witness ==
    /\ op = "fit_transform" /\ ~IsExc(ret)
    /\ config = Strs(<<"minmax", "zscore">>)
    /\ arg = NdArray3(Table3(1, MaxTime, 2))
    /\ Len(calls) = 2 * MaxTime
    /\ ShapeOf(ret) = <<2, MaxTime, 2>>

\* a container of the structure of data with other cell values
RECURSIVE Twin(_)
Twin(data) ==
    CASE IsList(data) -> PyList([i \in DOMAIN data.items |-> Twin(data.items[i])])
      [] IsDict(data) -> PyDict(data.keys, [i \in DOMAIN data.vals |-> Twin(data.vals[i])])
      [] IsNdArray(data) /\ data.ndim = 3 ->
           NdArray3([e \in DOMAIN data.v3 |-> [ts \in DOMAIN data.v3[e] |->
                       [f \in DOMAIN data.v3[e][ts] |-> data.v3[e][ts][f] + e + f]]])
      [] IsNdArray(data) /\ data.ndim = 2 ->
           NdArray2([r \in DOMAIN data.v |-> [f \in DOMAIN data.v[r] |->
                       data.v[r][f] + r + f]])
      [] OTHER -> data

\* fit_transform(data) on a coordinator of the same names and config that
\* was never used before
FirstFit(data) ==
    fit_transform(EmptyRegistry, "unset", "unset", "unset", names, config, data)

\* C14: repeating fit_transform on the same instance with a container of the
\* same structure writes the same set of registry keys each time, whatever
\* calls were made before, and a following inverse_transform uses the scalers
\* of the most recent fit_transform.
C14_DeterministicKeys ==
    /\ (op = "fit_transform" /\ ~IsExc(ret) /\ ~IsNone(config))
       => /\ {calls[i].key : i \in DOMAIN calls} = DOMAIN FirstFit(Twin(arg)).scalers
          /\ Only({ \A k \in DOMAIN f.scalers : scalers[k] = f.scalers[k] :
                    f \in {FirstFit(arg)} })
    /\ (op = "inverse_transform" /\ fresh /\ arg = fit_ret /\ ~IsNone(config))
       => \E pad \in PadVals :
             Only({ ret = (IF IsExc(r.exc) THEN r.exc ELSE r.data) :
                    r \in {inverse_transform(FirstFit(fit_arg).scalers, is_numpy_,
                                             is_list_, is_dict_, names, config, arg,
                                             pad)} })

\* a fit_transform has returned after replacing a scaler that an earlier
\* fit_transform had stored under the same key
C14_Witness ==
    /\ op = "fit_transform" /\ ~IsExc(ret)
    /\ refit
    /\ \E i \in DOMAIN calls : calls[i].key \in DOMAIN scalers

-----------------------------------------------------------------------------
(* make_space *)

\* make_space has been called and has returned a space
Returned == IsList(space_ret)
\* the result as a set of <<name, candidates>>
ResultPairs == {<<d.name, d.categories>> : d \in Range(space_ret.items)}
ResultNames == [i \in DOMAIN space_ret.items |-> space_ret.items[i].name]

\* what the include argument asks for, as a set of <<name, candidates>>: the
\* default space when it is None
IncludePairs ==
    Only({ IF IsNone(inc)
           THEN {<<f.s, space_args.categories>> : f \in Range(space_args.input_features.items)}
           ELSE IF IsStr(inc) THEN {<<inc.s, space_args.categories>>}
           ELSE IF IsList(inc)
           THEN {IF IsStr(e) THEN <<e.s, space_args.categories>>
                 ELSE <<e.keys[1], e.vals[1]>> : e \in Range(inc.items)}
           ELSE {<<inc.keys[i], inc.vals[i]>> : i \in DOMAIN inc.keys} :
           inc \in {space_args.include} })
IncludeNames == {p[1] : p \in IncludePairs}

\* the names the exclude argument lists, in order
ExcludeSeq ==
    Only({ IF IsNone(e) THEN <<>>
           ELSE IF IsStr(e) THEN <<e.s>>
           ELSE [i \in DOMAIN e.items |-> e.items[i].s] : e \in {space_args.exclude} })
ExcludeNames == Range(ExcludeSeq)

\* what the append argument asks for
AppendPairs ==
    Only({ IF IsNone(a) THEN {} ELSE {<<a.keys[i], a.vals[i]>> : i \in DOMAIN a.keys} :
           a \in {space_args.append} })
AppendNames == {p[1] : p \in AppendPairs}

\* the arguments of the example: features a, b, c; include a, b; exclude a;
\* append d with the single candidate zscore
PrecedenceExample ==
    [input_features |-> ABC, categories |-> Categories, include |-> Strs(<<"a", "b">>),
     exclude |-> Strs(<<"a">>), append |-> Candidates("d", "zscore")]

\* C15: make_space applies include, then exclude, then append: a returned
\* space holds the dimensions of the include-space (the default space when
\* include is None) whose names are neither excluded nor appended, and the
\* dimensions of append, each name once; for the example arguments it is
\* exactly b with all categories, then d with [zscore].
C15_Precedence ==
    /\ Returned
       => /\ ResultPairs = {p \in IncludePairs : p[1] \notin ExcludeNames \cup AppendNames}
                              \cup AppendPairs
          /\ Cardinality({d.name : d \in Range(space_ret.items)}) = Len(space_ret.items)
    /\ (space_args = PrecedenceExample /\ ~IsNone(space_ret))
       => space_ret = PyList(<<Categorical(Categories, "b"),
                               Categorical(Strs(<<"zscore">>), "d")>>)

\* make_space has returned for the example arguments
C15_Witness ==
    /\ space_args = PrecedenceExample
    /\ Returned
    /\ Len(space_ret.items) = 2

\* the include argument has one of the three accepted forms and names only
\* input features, every candidate list being a list
IsPair(e) == IsDict(e) /\ Len(e.keys) = 1 /\ IsList(e.vals[1])
AcceptedInclude ==
    Only({ /\ (\/ IsStr(inc)
               \/ (IsList(inc) /\ \A e \in Range(inc.items) : IsStr(e) \/ IsPair(e))
               \/ IsPair(inc))
           /\ IncludeNames \subseteq {f.s : f \in Range(space_args.input_features.items)} :
           inc \in {space_args.include} })

\* C16: when include has one of its three accepted forms (a feature name; a
\* list of feature names or one-entry {feature: candidate_list} pairs; one
\* {feature: candidate_list} mapping), the space before exclude and append
\* (observed with exclude and append None) holds exactly the listed features,
\* each with its candidate list, or all categories for a bare name.
C16_IncludeForms ==
    (AcceptedInclude /\ IsNone(space_args.exclude) /\ IsNone(space_args.append)
       /\ ~IsNone(space_ret))
    => (Returned /\ ResultPairs = IncludePairs)

\* the include argument names a feature that is not in input_features
IncludeNamesUnknown ==
    Only({ /\ (IsStr(inc) \/ IsPair(inc)
                 \/ (IsList(inc) /\ \A e \in Range(inc.items) : IsStr(e) \/ IsPair(e)))
           /\ ~(IncludeNames \subseteq {f.s : f \in Range(space_args.input_features.items)}) :
           inc \in {space_args.include} })

\* C17: make_space rejects with an error every include argument that names
\* a feature outside input_features, whichever form include has (a name, a
\* list entry, a mapping): such a call never returns a space.
C17_UnknownIncludeRejected ==
    (IncludeNamesUnknown /\ ~IsNone(space_ret)) => IsExc(space_ret)

\* the include block raises nothing: include is None, a name, a list of
\* names of input features, or one {feature: candidate_list} mapping
IncludePasses ==
    Only({ \/ IsNone(inc) \/ IsStr(inc) \/ IsPair(inc)
           \/ (IsList(inc) /\ \A e \in Range(inc.items) :
                                 e \in Range(space_args.input_features.items)) :
           inc \in {space_args.include} })

\* exclude is a name or a list of names
ExcludeGiven == IsStr(space_args.exclude) \/ IsList(space_args.exclude)

\* the positions of exclude whose name the space does not hold when its turn
\* comes: a name the include-space lacks, or one already removed
AbsentAt ==
    {i \in DOMAIN ExcludeSeq :
        \/ ExcludeSeq[i] \notin IncludeNames
        \/ \E j \in 1..(i - 1) : ExcludeSeq[j] = ExcludeSeq[i]}

\* C18: exclude removes exactly the named dimensions from the space built so
\* far (the default space or the include-space) and leaves the others
\* (observed with append None); when a name of exclude is not in that space,
\* make_space raises KeyError for the first such name and returns no space,
\* whatever append is.
C18_Exclude ==
    (IncludePasses /\ ExcludeGiven /\ ~IsNone(space_ret))
    => /\ (AbsentAt = {} /\ IsNone(space_args.append))
          => (Returned /\ ResultPairs = {p \in IncludePairs : p[1] \notin ExcludeNames})
       /\ AbsentAt # {}
          => \E i \in AbsentAt :
                /\ \A j \in AbsentAt : i <= j
                /\ space_ret = KeyError(ExcludeSeq[i])

\* exclude named a dimension the include-space does not hold, and the call
\* has raised KeyError
C18_Witness ==
    /\ space_args.include = Strs(<<"a", "b">>)
    /\ space_args.exclude = PyStr("c")
    /\ space_args.input_features = ABC
    /\ space_ret = KeyError("c")

\* C19: every name in append appears in a returned space, once, with exactly
\* the candidates given in append, whether or not it is an input feature,
\* whether include listed it with other candidates, and whether exclude
\* removed it; and when include and exclude raise nothing and append maps
\* names to lists, the space is returned.
C19_AppendWins ==
    (IsDict(space_args.append) /\ ~IsNone(space_ret))
    => /\ Returned
          => \A p \in AppendPairs :
                /\ IsList(p[2])
                /\ Cardinality({i \in DOMAIN space_ret.items :
                                   space_ret.items[i].name = p[1]}) = 1
                /\ \E i \in DOMAIN space_ret.items :
                      space_ret.items[i] = Categorical(p[2], p[1])
       /\ (/\ IncludePasses
           /\ IsNone(space_args.exclude) \/ (ExcludeGiven /\ AbsentAt = {})
           /\ \A p \in AppendPairs : IsList(p[2]))
          => Returned

\* append named a, which include had listed with the candidate log and
\* exclude had removed, and d, which is no input feature; both are in the
\* returned space with the candidates of append
C19_Witness ==
    /\ space_args.include = Candidates("a", "log")
    /\ space_args.exclude = PyStr("a")
    /\ space_args.append = PyDict(<<"d", "a">>, <<Strs(<<"zscore">>), Strs(<<"log", "sqrt">>)>>)
    /\ space_ret = PyList(<<Categorical(Strs(<<"zscore">>), "d"),
                            Categorical(Strs(<<"log", "sqrt">>), "a")>>)

\* the names of s in the order of their first occurrence, from the i-th on
RECURSIVE FirstOccurrences(_, _, _)
FirstOccurrences(s, i, acc) ==
    IF i > Len(s) THEN acc
    ELSE FirstOccurrences(s, i + 1, IF s[i] \in Range(acc) THEN acc ELSE Append(acc, s[i]))

\* the names of the include argument in its order; those of input_features
\* when it is None
IncludeSeq ==
    Only({ IF IsNone(inc)
           THEN FirstOccurrences([i \in DOMAIN space_args.input_features.items |->
                                    space_args.input_features.items[i].s], 1, <<>>)
           ELSE IF IsStr(inc) THEN <<inc.s>>
           ELSE IF IsList(inc)
           THEN FirstOccurrences([i \in DOMAIN inc.items |->
                                    IF IsStr(inc.items[i]) THEN inc.items[i].s
                                    ELSE inc.items[i].keys[1]], 1, <<>>)
           ELSE inc.keys :
           inc \in {space_args.include} })

\* the order the arguments determine: the include (or default) names that are
\* not excluded, then the names append introduces, in append order
ExpectedOrder ==
    Only({ kept \o SelectSeq(IF IsNone(space_args.append) THEN <<>>
                             ELSE space_args.append.keys,
                             LAMBDA n : n \notin Range(kept)) :
           kept \in {SelectSeq(IncludeSeq, LAMBDA n : n \notin ExcludeNames)} })

\* C20: the dimensions of a returned space are ordered by first insertion:
\* input_features order when include is None, otherwise include order, then
\* the names newly introduced by append in append order; a name that append
\* overwrites keeps its position.  The order is a function of the arguments
\* alone, so two calls with the same arguments return the same sequence.
C20_InsertionOrder ==
    Returned => ResultNames = ExpectedOrder

\* append overwrote a, the first of the default dimensions, and introduced
\* d: a is still first, with the candidates of append, and d is last
C20_Witness ==
    /\ space_args.input_features = ABC
    /\ IsNone(space_args.include) /\ IsNone(space_args.exclude)
    /\ space_args.append = PyDict(<<"d", "a">>, <<Strs(<<"zscore">>), Strs(<<"log", "sqrt">>)>>)
    /\ Returned
    /\ space_ret.items[1] = Categorical(Strs(<<"log", "sqrt">>), "a")
    /\ space_ret.items[4] = Categorical(Strs(<<"zscore">>), "d")

\* C21: with include, exclude and append all None, make_space returns one
\* dimension per distinct name of input_features, each with the candidates
\* categories; and the dimensions of every returned space have pairwise
\* distinct names, also when input_features or include repeat a name.
C21_DefaultSpace ==
    /\ (IsNone(space_args.include) /\ IsNone(space_args.exclude)
          /\ IsNone(space_args.append) /\ ~IsNone(space_ret))
       => /\ Returned
          /\ Len(space_ret.items)
               = Cardinality({f.s : f \in Range(space_args.input_features.items)})
          /\ \A f \in Range(space_args.input_features.items) :
                \E i \in DOMAIN space_ret.items :
                   space_ret.items[i] = Categorical(space_args.categories, f.s)
    /\ Returned
       => \A i, j \in DOMAIN space_ret.items :
             space_ret.items[i].name = space_ret.items[j].name => i = j

\* input_features names a twice and the default space has been returned
\* with the two dimensions a and b
C21_Witness ==
    /\ space_args.input_features = Strs(<<"a", "b", "a">>)
    /\ IsNone(space_args.include) /\ IsNone(space_args.exclude)
    /\ IsNone(space_args.append)
    /\ Returned /\ Len(space_ret.items) = 2

-----------------------------------------------------------------------------
(* conform_shape *)

\* conform_shape has been called and has returned (table, dummy_features)
Conformed == conform_ret.t = "tuple"
\* the table passed is 2-D, and so is the recorded shape
IsTable(x) == x.t = "DataFrame" \/ (IsNdArray(x) /\ x.ndim = 2)
TableCall == IsTable(conform_args.data) /\ Len(conform_args.shape) = 2
\* the column count the recorded shape asks for
TargetWidth == conform_args.shape[Len(conform_args.shape)]

\* C22: a table padded by conform_shape(table, shape) to a target at least as
\* wide, then stripped of the reported number of dummy columns (line 300), is
\* the original table: the same columns in the same order with the same
\* values (for example 2 columns padded to 5 and stripped back to 2).
C22_PaddingRoundTrip ==
    (TableCall /\ IsNone(conform_args.features)
       /\ TargetWidth >= NCols(conform_args.data.v))
    => /\ ~IsNone(conform_ret)
          => /\ Conformed
             /\ NCols(conform_ret.data.v) = TargetWidth
             /\ conform_ret.dummy_features = TargetWidth - NCols(conform_args.data.v)
       /\ ~IsNone(stripped) => stripped.v = conform_args.data.v

\* a table of 2 columns was padded to 5 columns, 3 of them dummies, and
\* stripped back to its 2 columns
C22_Witness ==
    /\ conform_args.data = DataFrame(<<"a", "b">>, Table2(1, 2))
    /\ conform_args.shape = <<2, 5>>
    /\ IsNone(conform_args.features)
    /\ Conformed /\ conform_ret.dummy_features = 3 /\ NCols(conform_ret.data.v) = 5
    /\ ~IsNone(stripped) /\ NCols(stripped.v) = 2

\* C23: conform_shape returns a table whose column count is the last
\* dimension of the target shape, and a count that is the number of dummy
\* columns it added (zero when none were added, never negative), without
\* features and with features.
C23_ConformedWidth ==
    (TableCall /\ Conformed)
    => /\ NCols(conform_ret.data.v) = TargetWidth
       /\ conform_ret.dummy_features
            = NCols(conform_ret.data.v) - NCols(conform_args.data.v)
       /\ conform_ret.dummy_features >= 0

\* the rank of the table minus that of the recorded shape
RankDifference == conform_args.data.ndim - Len(conform_args.shape)
\* the column count of an array of rank 1 or 3 once its rank is adjusted
AdjustedWidth ==
    IF conform_args.data.ndim = 1 THEN 1 ELSE Len(conform_args.data.v3[1])

\* C24: conform_shape drops the last axis of a table that has one dimension
\* more than the target shape and appends a trailing axis of size 1 to one
\* that has one fewer (observed for arrays of rank 3 and 1 and a 2-D target
\* at least as wide as the adjusted table: a 2-D table is returned), and
\* fails whenever the ranks differ by more than one, in either direction.
C24_RankAdjustment ==
    ~IsNone(conform_ret)
    => /\ (/\ RankDifference \in {1, -1}
           /\ IsNdArray(conform_args.data) /\ Len(conform_args.shape) = 2
           /\ TargetWidth >= AdjustedWidth)
          => (Conformed /\ conform_ret.data.ndim = 2
                /\ NCols(conform_ret.data.v) = TargetWidth)
       /\ (RankDifference > 1 \/ RankDifference < -1) => IsExc(conform_ret)

-----------------------------------------------------------------------------
(* List specs, broadcasting, descriptors *)

\* the table the entry at position i of a list of method names is applied
\* to: the data for the first, the output of the entry before for the others
RECURSIVE StageInput(_, _, _)
StageInput(df, methods, i) ==
    IF i = 1 THEN df
    ELSE Only({ ForwardFrame(prev, FitScaler(prev, methods[i - 1], None)) :
                prev \in {StageInput(df, methods, i - 1)} })

\* the key base_key_m_i
PositionKey(base, method, i) == base \o "_" \o method \o "_" \o ToString(i)

\* a list of method names is the spec of the 2-D array fit_transform returned for
ListOfNamesFit ==
    /\ op = "fit_transform" /\ ~IsExc(ret)
    /\ IsNdArray(arg) /\ arg.ndim = 2
    /\ IsList(config) /\ \A e \in Range(config.items) : IsStr(e)

\* C25: when the spec of a source is a list, fit_transform applies the
\* entries in list order, each on the output of the one before, and stores
\* the scaler of the entry at position i with method m under base_key_m_i;
\* the same method at two positions gives two distinct entries.
C25_ListOrderAndKeys ==
    ListOfNamesFit
    => Only({ /\ calls = [i \in DOMAIN ms |->
                            Call("transformation", "5", ms[i], i - 1,
                                 PositionKey("5", ms[i], i - 1))]
              /\ \A i \in DOMAIN ms :
                    /\ PositionKey("5", ms[i], i - 1) \in DOMAIN scalers
                    /\ scalers[PositionKey("5", ms[i], i - 1)]
                         = FitScaler(StageInput(DataFrame(ColumnLabels(names), arg.v),
                                                ms, i), ms[i], None)
              /\ Cardinality({PositionKey("5", ms[i], i - 1) : i \in DOMAIN ms}) = Len(ms)
              /\ ret = NdArray2(StageInput(DataFrame(ColumnLabels(names), arg.v),
                                           ms, Len(ms) + 1).v) :
              ms \in {[i \in DOMAIN config.items |-> config.items[i].s]} })

\* minmax is used at both positions of the list, and both scalers are stored
C25_Witness ==
    /\ ListOfNamesFit
    /\ config = Strs(<<"minmax", "minmax">>)
    /\ {"5_minmax_0", "5_minmax_1"} \subseteq DOMAIN scalers
    /\ scalers["5_minmax_0"] # scalers["5_minmax_1"]

\* one copy of the method name per source of data
Copies(cfg, data) ==
    IF IsList(data) THEN PyList([i \in DOMAIN data.items |-> cfg])
    ELSE PyDict(data.keys, [i \in DOMAIN data.keys |-> cfg])

\* fit_transform was called with a list or a mapping on a coordinator whose
\* config is a single method name
BroadcastFit ==
    /\ op = "fit_transform"
    /\ IsStr(config)
    /\ (IsList(arg) \/ IsDict(arg))

\* C26: when config is a single method name, fit_transform of a list of N
\* arrays (of a mapping of arrays) does what it does on a coordinator whose
\* config is N copies of the name (one copy per key): the same result, the
\* same primitive calls, the same scalers under the same keys; and no call of
\* fit_transform or inverse_transform changes the stored config.
C26_Broadcast ==
    /\ [](BroadcastFit
          => Only({ /\ ret = (IF IsExc(r.exc) THEN r.exc ELSE r.data)
                    /\ calls = r.calls
                    /\ \A k \in DOMAIN r.scalers :
                          k \in DOMAIN scalers /\ scalers[k] = r.scalers[k] :
                    r \in {fit_transform(EmptyRegistry, "unset", "unset", "unset", names,
                                         Copies(config, arg), arg)} }))
    /\ [][config' = config]_vars

\* a list of two arrays was transformed by the single method name minmax:
\* one scaler per source
C26_Witness ==
    /\ BroadcastFit /\ IsList(arg) /\ ~IsExc(ret)
    /\ config = PyStr("minmax")
    /\ calls = <<Call("transformation", "5_0", "minmax", -1, "5_0"),
                 Call("transformation", "5_1", "minmax", -1, "5_1")>>
    /\ {"5_0", "5_1"} \subseteq DOMAIN scalers

\* inverse_transform was called with a 2-D array on a coordinator that
\* recorded the array variant and whose config is a single descriptor
DescriptorInverse ==
    /\ op = "inverse_transform"
    /\ is_numpy_ = "True"
    /\ IsNdArray(arg) /\ arg.ndim = 2 /\ NCols(arg.v) = Len(ColumnLabels(names))
    /\ IsDict(config) /\ DictHas(config, "method")

\* C27: inverse_transform with a descriptor returns a table none of whose
\* columns is in the descriptor's features untouched, without a registry
\* lookup and without an error, whatever the registry holds; and a
\* descriptor without features covers all columns of the table: the round
\* trip inverts every column with the scaler of its key.
C27_DescriptorFeatures ==
    DescriptorInverse
    => /\ (/\ DictHas(config, "features")
           /\ \A f \in Range(DictGet(config, "features").items) :
                 f.s \notin Range(ColumnLabels(names)))
          => (~IsExc(ret) /\ calls = <<>> /\ ret.v = arg.v)
       /\ (~DictHas(config, "features") /\ fresh /\ arg = fit_ret)
          => (~IsExc(ret)
                /\ calls = <<Call("inverse", "5", DictGet(config, "method").s, -1, "5")>>
                /\ ret.v = fit_arg.v)

\* the step is a fit_transform, after one that succeeded, that fails because
\* the data is of no accepted kind, or because the feature names do not have
\* the structure the data asks for
FailedFitStep ==
    /\ ~IsNone(fit_ret)
    /\ op' = "fit_transform" /\ IsExc(ret')
    /\ \/ ~(IsNdArray(arg') \/ IsList(arg') \/ IsDict(arg'))
       \/ IsExc(_check_features(is_numpy_', is_list_', is_dict_', names))

\* C28: a fit_transform that fails on an invalid kind of data or an invalid
\* structure of feature names leaves the coordinator as it was: the
\* registry, the names, the config and the recorded container variant.
C28_FailedFitKeepsState ==
    [][FailedFitStep
       => /\ scalers' = scalers /\ names' = names /\ config' = config
          /\ is_numpy_' = is_numpy_ /\ is_list_' = is_list_ /\ is_dict_' = is_dict_]_vars

-----------------------------------------------------------------------------
(* OptimizeTransformations.update *)

\* the positions of the suggestions that yield a descriptor for x (input
\* features) or for y (the others), in suggestion order
DescriptorPositions(forX) ==
    SelectSeq([i \in DOMAIN suggestions.keys |-> i],
              LAMBDA i : /\ suggestions.vals[i] # PyStr("none")
                         /\ (PyStr(suggestions.keys[i]) \in Range(model_input_features.items))
                              = forX)

\* the descriptors are those of the suggestions at the positions pos, one
\* each, with the method and the single feature of the suggestion
DescribesSuggestions(descriptors, pos) ==
    /\ Len(descriptors) = Len(pos)
    /\ \A j \in DOMAIN pos :
          /\ IsDict(descriptors[j])
          /\ DictHas(descriptors[j], "method") /\ DictHas(descriptors[j], "features")
          /\ DictGet(descriptors[j], "method") = suggestions.vals[pos[j]]
          /\ DictGet(descriptors[j], "features")
               = PyList(<<PyStr(suggestions.keys[pos[j]])>>)

\* C30: update turns the suggestions {feature: method} into the spec of the
\* trial: a suggestion with method "none" yields no descriptor; every other
\* one yields one descriptor with that method and features [feature], in
\* x_transformation when the feature is an input feature and in
\* y_transformation otherwise, in suggestion order; both keys of the config
\* are overwritten whatever they held, and y_transformation is None when no
\* descriptor falls to it.
C30_Update ==
    ~IsNone(suggestions)
    => /\ DictHas(trial_config, "x_transformation")
       /\ DictHas(trial_config, "y_transformation")
       /\ Only({ IsList(x) /\ DescribesSuggestions(x.items, DescriptorPositions(TRUE)) :
                 x \in {DictGet(trial_config, "x_transformation")} })
       /\ Only({ IF DescriptorPositions(FALSE) = <<>> THEN IsNone(y)
                 ELSE IsList(y) /\ DescribesSuggestions(y.items, DescriptorPositions(FALSE)) :
                 y \in {DictGet(trial_config, "y_transformation")} })

\* a config that came with transformations of the user went through update
\* with a suggestion for the input feature a, none for b, and only "none"
\* for the output: x_transformation is the one descriptor, y_transformation None
C30_Witness ==
    /\ model_input_features = AB
    /\ suggestions = PyDict(<<"a", "b", "y">>, <<PyStr("minmax"), PyStr("none"), PyStr("none")>>)
    /\ trial_config
         = PyDict(<<"y_transformation", "lr", "x_transformation">>,
                  <<None, PyStr("0.1"),
                    PyList(<<Descriptor(PyStr("minmax"), Strs(<<"a">>))>>)>>)

====
